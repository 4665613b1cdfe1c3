------------------------------ MODULE CommandLine ------------------------------
(***************************************************************************)
(* Reading the command line, one argument with its value at a time, and    *)
(* the checks behind the last one.  An option may be given again.  A path  *)
(* is "" (given empty), "-" or another name; a value that cannot be read   *)
(* is "bad", and one missing at the end of the line "absent".              *)
(***************************************************************************)
EXTENDS Naturals, Sequences, Functions, SequencesExt

CONSTANTS
    Arguments,                     \* arguments that may be given: [flag, value]
    ArgumentLimit                  \* bound: arguments on one line, repeated ones twice

LoopLimits == {"--max-single-loop-iterations", "--max-cumulative-loop-iterations"}
EmissionLimits == {"--max-source-accesses", "--max-line-references"}
LimitFlags == LoopLimits \cup EmissionLimits
Documents == {"--telemetry", "--export-events"}
PathFlags == Documents \cup {"--cache", "--elf", "--export", "MAP"}
Flags == PathFlags \cup LimitFlags
         \cup {"--analysis", "--event-limit", "--granularity", "--mode", "--help", "unknown"}

\* An argument is its flag and its value, which a name and --help cannot lack;
\* "none" marks a path that was not given.
ASSUME ArgumentAssumption ==
    \A a \in Arguments :
       /\ a.flag \in Flags /\ a.value # "none"
       /\ a.flag \in {"MAP", "--help"} => a.value # "absent"

VARIABLES
    given,                         \* flag -> the values read for it (history)
    options,
    hierarchy_options, event_limit_explicit,
    options_stage                  \* "parsing", "accepted", "refused" or "help"

option_vars == <<given, options, hierarchy_options, event_limit_explicit, options_stage>>

NoPath == "none"                   \* what an empty path means everywhere
DefaultLimit == "default"          \* of a number not given on the line

Options ==
    [mode |-> "legacy", ir_instructions |-> FALSE,
     paths |-> [f \in PathFlags |-> NoPath],
     limits |-> [f \in LimitFlags |-> DefaultLimit],
     event_limit |-> "0", granularity |-> "element", granularity_explicit |-> FALSE]

NothingGiven == [f \in Flags |-> <<>>]

OptionsInit ==
    /\ given = NothingGiven
    /\ options = Options
    /\ hierarchy_options = FALSE /\ event_limit_explicit = FALSE
    /\ options_stage = "parsing"

artifact_path(path) == path \notin {"", "-"}
Path(value) == IF value = "" THEN NoPath ELSE value

Exclusive == {"mapping", "hierarchy-rd"}

\* Mutant: ir-instructions takes the place of an analysis already chosen.
ModeWith_last(mode, analysis) == analysis

ModeWith(mode, analysis) ==
    IF analysis \in Exclusive \/ mode = "legacy" THEN analysis ELSE mode

\* A value that the flag can take, whatever else is on the line.
Legible(flag, value) ==
    /\ value # "absent" /\ flag # "unknown"
    /\ flag = "--analysis" => value \in Exclusive \cup {"ir-instructions"}
    /\ flag \in Documents => artifact_path(value)
    /\ flag \in {"--event-limit"} \cup LimitFlags => value # "bad"
    /\ flag = "--mode" => value = "unroll"
    /\ flag = "--granularity" => value \in {"element", "cache-line"}

BadArgument(a) ==
    \/ ~Legible(a.flag, a.value)
    \/ a.flag = "MAP" /\ options.paths["MAP"] # NoPath
    \/ a.flag = "--analysis" /\ a.value \in Exclusive
          /\ options.mode \in Exclusive /\ options.mode # a.value

IsHierarchyOption(flag) == flag \in Documents \cup EmissionLimits \cup {"--event-limit"}

Reads(a) ==
    /\ options_stage = "parsing"
    /\ given' = [given EXCEPT ![a.flag] = Append(@, a.value)]
    /\ hierarchy_options' = (hierarchy_options \/ IsHierarchyOption(a.flag))

ReadAnalysis(a) ==
    /\ a.flag = "--analysis" /\ ~BadArgument(a) /\ Reads(a)
    /\ options' = [options EXCEPT !.mode = ModeWith(@, a.value),
                                  !.ir_instructions = @ \/ a.value = "ir-instructions"]
    /\ UNCHANGED <<event_limit_explicit, options_stage>>

ReadPath(a) ==
    /\ a.flag \in PathFlags /\ ~BadArgument(a) /\ Reads(a)
    /\ options' = [options EXCEPT !.paths[a.flag] = Path(a.value)]
    /\ UNCHANGED <<event_limit_explicit, options_stage>>

ReadLimit(a) ==
    /\ a.flag \in LimitFlags /\ ~BadArgument(a) /\ Reads(a)
    /\ options' = [options EXCEPT !.limits[a.flag] = a.value]
    /\ UNCHANGED <<event_limit_explicit, options_stage>>

ReadEventLimit(a) ==
    /\ a.flag = "--event-limit" /\ ~BadArgument(a) /\ Reads(a)
    /\ options' = [options EXCEPT !.event_limit = a.value]
    /\ event_limit_explicit' = TRUE
    /\ UNCHANGED options_stage

ReadGranularity(a) ==
    /\ a.flag = "--granularity" /\ ~BadArgument(a) /\ Reads(a)
    /\ options' = [options EXCEPT !.granularity = a.value, !.granularity_explicit = TRUE]
    /\ UNCHANGED <<event_limit_explicit, options_stage>>

ReadMode(a) ==
    /\ a.flag = "--mode" /\ ~BadArgument(a) /\ Reads(a)
    /\ UNCHANGED <<options, event_limit_explicit, options_stage>>

Help(a) ==
    /\ a.flag = "--help" /\ Reads(a)
    /\ options_stage' = "help"
    /\ UNCHANGED <<options, event_limit_explicit>>

RefuseArgument(a) ==
    /\ BadArgument(a) /\ Reads(a)
    /\ options_stage' = "refused"
    /\ UNCHANGED <<options, event_limit_explicit>>

-----------------------------------------------------------------------------
Has(flag) == options.paths[flag] # NoPath
Hierarchy == options.mode = "hierarchy-rd"

\* Every check behind the last argument; counting instructions alone takes
\* nothing but its input.
Consistent ==
    /\ Has("MAP")
    /\ hierarchy_options => Hierarchy
    /\ IF options.mode = "ir-instructions"
       THEN ~Has("--elf") /\ ~Has("--cache") /\ ~options.granularity_explicit
       ELSE /\ options.mode # "legacy" => Has("--elf")
            /\ Hierarchy => /\ Has("--export") /\ artifact_path(options.paths["--export"])
                            /\ event_limit_explicit => Has("--export-events")
            /\ Has("--elf") => /\ Has("--cache")
                               /\ options.granularity_explicit =>
                                      options.granularity = "cache-line"
            /\ options.granularity = "cache-line" => Has("--cache")

EndOfLine ==
    /\ options_stage = "parsing"
    /\ options_stage' = IF Consistent THEN "accepted" ELSE "refused"
    /\ UNCHANGED <<given, options, hierarchy_options, event_limit_explicit>>

IsGiven(flag) == given[flag] # <<>>

\* Arguments for which the bound leaves room.
MayFollow ==
    LET count == [f \in Flags |-> IF IsGiven(f) THEN 2 * Len(given[f]) - 1 ELSE 0]
        left == ArgumentLimit - SumFunctionOnSet(count, Flags)
    IN  {a \in Arguments : left >= IF IsGiven(a.flag) THEN 2 ELSE 1}

OptionsNext ==
    \/ \E a \in MayFollow : \/ ReadAnalysis(a) \/ ReadPath(a) \/ ReadLimit(a)
                           \/ ReadEventLimit(a) \/ ReadGranularity(a) \/ ReadMode(a)
                           \/ Help(a) \/ RefuseArgument(a)
    \/ EndOfLine
-----------------------------------------------------------------------------
(* What a line says, whoever reads it.                                      *)

Analyses == Range(given["--analysis"])

\* The last value given for a flag.
Latest(flag, default) == IF IsGiven(flag) THEN Last(given[flag]) ELSE default
Provides(flag) == Latest(flag, "") # ""

Asked == IF "hierarchy-rd" \in Analyses THEN "hierarchy-rd"
         ELSE IF "mapping" \in Analyses THEN "mapping"
         ELSE IF "ir-instructions" \in Analyses THEN "ir-instructions"
         ELSE "legacy"

OptionsOfLine ==
    [mode |-> Asked, ir_instructions |-> "ir-instructions" \in Analyses,
     paths |-> [f \in PathFlags |-> Path(Latest(f, ""))],
     limits |-> [f \in LimitFlags |-> Latest(f, DefaultLimit)],
     event_limit |-> Latest("--event-limit", "0"),
     granularity |-> Latest("--granularity", "element"),
     granularity_explicit |-> IsGiven("--granularity")]

\* Every value counts for being legible, the last one for what it asks: a mapping
\* wants an image, an image its caches and lines for a granularity, a hierarchy an
\* output file, an event limit of any size an events file; counting instructions
\* alone takes nothing else; and the module is the only name, behind empty ones.
LineFits ==
    /\ \A f \in Flags : \A i \in DOMAIN given[f] : Legible(f, given[f][i])
    /\ Provides("MAP") /\ \A i \in DOMAIN given["MAP"] :
                          i < Len(given["MAP"]) => given["MAP"][i] = ""
    /\ ~(Exclusive \subseteq Analyses)
    /\ (\E f \in Flags : IsGiven(f) /\ IsHierarchyOption(f)) => Asked = "hierarchy-rd"
    /\ Asked \in Exclusive => Provides("--elf")
    /\ Asked = "hierarchy-rd" => Provides("--export") /\ Latest("--export", "") # "-"
    /\ IsGiven("--event-limit") => Provides("--export-events")
    /\ Provides("--elf") => Provides("--cache")
    /\ Provides("--elf") /\ IsGiven("--granularity") => Latest("--granularity", "") = "cache-line"
    /\ Latest("--granularity", "") = "cache-line" => Provides("--cache")
    /\ Asked = "ir-instructions" =>
          ~Provides("--elf") /\ ~Provides("--cache") /\ ~IsGiven("--granularity")

\* A line is accepted exactly when it fits, and then gives every option the last
\* value on it, the analyses adding up: nothing depends on the order of different
\* flags, nor on a value that a later one replaces, although conflicts are found
\* while reading and the rest only at the end (parse_options).
LastValuesDecide ==
    /\ options_stage = "accepted" => LineFits /\ options = OptionsOfLine
    /\ options_stage = "refused" => ~LineFits
=============================================================================
