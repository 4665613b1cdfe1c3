---------------------------- MODULE AnalysisCommand ----------------------------
(***************************************************************************)
(* One hierarchy analysis from the command line to its documents: the      *)
(* stages in order, the clock read around them when telemetry is asked     *)
(* for, the callbacks of the stream timed inside the stream, and an        *)
(* exception on its way out.  What a stage computes is in other modules.   *)
(***************************************************************************)
EXTENDS CommandLine, Integers, Sequences, Functions

CONSTANTS
    ClockLimit,                    \* bound: largest time read
    CallbackLimit,                 \* bound: callbacks of one stream
    Kinds                          \* types of exceptions, "json" one of them

ASSUME LimitAssumption == ClockLimit \in Nat /\ CallbackLimit \in Nat

VARIABLES
    step,                          \* where the command is; 0 before, or an end
    clock, backwards,              \* last time read, and whether it ever fell
    started_at, stage_times,       \* AnalysisTelemetryCollector
    started, callback,             \* starts of the stage and callback under way
    callbacks,                     \* callbacks completed
    thrown, error,                 \* exception as it was raised, and as it arrives
    published                      \* documents in the order of their renames

command_vars == <<step, clock, backwards, started_at, stage_times, started, callback,
                  callbacks, thrown, error, published>>

Steps == <<"hash", "ParseMap", "ParseCache", "ParseElf", "select", "ResolveAndStream",
           "SerializeResult", "snapshot", "publish">>
Timed == {"ParseMap", "ParseCache", "ParseElf", "ResolveAndStream", "SerializeResult"}
Stages == Timed \cup {"HierarchyAnalysis"}

Unmeasured == -1
Idle == -1
Nothing == [s \in Stages |-> Unmeasured]
NoError == [from |-> "nobody", kind |-> "none", wrapped |-> FALSE]

CommandInit ==
    /\ OptionsInit
    /\ step = 0 /\ clock = 0 /\ backwards = FALSE /\ started_at = 0
    /\ stage_times = Nothing
    /\ started = Idle /\ callback = Idle /\ callbacks = 0
    /\ thrown = NoError /\ error = NoError
    /\ published = <<>>

Collecting == options.paths["--telemetry"] # NoPath

clock_vars == <<clock, backwards>>

\* Time is read only for telemetry, from a clock that may be set back.
now_ns(t) == IF Collecting THEN /\ t \in 0 .. ClockLimit /\ clock' = t
                                /\ backwards' = (backwards \/ t < clock)
                           ELSE t = 0 /\ UNCHANGED clock_vars

Running == step \in DOMAIN Steps /\ thrown = NoError
At(name) == Running /\ Steps[step] = name
InStream == At("ResolveAndStream") /\ started # Idle

\* What main forgets about the line once it has its options: how it was written.
Dispatch ==
    /\ options_stage = "accepted" /\ step = 0
    /\ IF Hierarchy
       THEN /\ \E t \in 0 .. ClockLimit : now_ns(t) /\ started_at' = t
            /\ step' = 1
       ELSE /\ step' = Len(Steps) + 1
            /\ UNCHANGED <<clock_vars, started_at>>
    /\ given' = NothingGiven /\ options_stage' = "dispatched"
    /\ UNCHANGED <<options, hierarchy_options, event_limit_explicit, stage_times, started,
                   callback, callbacks, thrown, error, published>>

\* Hashing the inputs and choosing the hierarchy are part of no stage.
DoUntimed ==
    /\ At("hash") \/ At("select")
    /\ step' = step + 1
    /\ UNCHANGED <<option_vars, clock_vars, started_at, stage_times, started, callback,
                   callbacks, thrown, error, published>>

StartStage ==
    /\ Running /\ Steps[step] \in Timed /\ started = Idle
    /\ \E t \in 0 .. ClockLimit : now_ns(t) /\ started' = t
    /\ UNCHANGED <<option_vars, step, started_at, stage_times, callback, callbacks,
                   thrown, error, published>>

\* The intervals of a stage add up.
Measured(stage, from, to) ==
    IF ~Collecting THEN stage_times
    ELSE [stage_times EXCEPT ![stage] = (IF @ = Unmeasured THEN 0 ELSE @) + (to - from)]

\* finish_stage refuses an interval that ends before it starts, or starts before
\* the collector did.
Forward(from, to) == Collecting => started_at <= from /\ from <= to

\* A module has a root, and its task a beginning and an end, each a callback.
StreamEnds == callback = Idle /\ callbacks >= 2

StageEnds ==
    /\ Running /\ Steps[step] \in Timed /\ started # Idle
    /\ Steps[step] = "ResolveAndStream" => StreamEnds

FinishStage ==
    /\ StageEnds
    /\ \E t \in 0 .. ClockLimit :
          /\ now_ns(t) /\ Forward(started, t)
          /\ stage_times' = Measured(Steps[step], started, t)
    /\ started' = Idle
    /\ step' = step + 1
    /\ UNCHANGED <<option_vars, started_at, callback, callbacks, thrown, error, published>>

StartCallback ==
    /\ InStream /\ callback = Idle /\ callbacks < CallbackLimit
    /\ \E t \in 0 .. ClockLimit : now_ns(t) /\ callback' = t
    /\ UNCHANGED <<option_vars, step, started_at, stage_times, started, callbacks, thrown,
                   error, published>>

\* Mutant: a callback is measured from the start of the stream.
CallbackStart_of_stream == started

CallbackStart == callback

FinishCallback ==
    /\ InStream /\ callback # Idle
    /\ \E t \in 0 .. ClockLimit :
          /\ now_ns(t) /\ Forward(CallbackStart, t)
          /\ stage_times' = Measured("HierarchyAnalysis", CallbackStart, t)
    /\ callback' = Idle
    /\ callbacks' = callbacks + 1
    /\ UNCHANGED <<option_vars, step, started_at, started, thrown, error, published>>

-----------------------------------------------------------------------------
\* An exception of a callback is wrapped before it enters the walk.
Raise(from, kind) ==
    /\ thrown' = [from |-> from, kind |-> kind, wrapped |-> FALSE]
    /\ error' = [thrown' EXCEPT !.wrapped = InStream /\ callback # Idle]
    /\ UNCHANGED <<option_vars, step, started_at, stage_times, started, callback, callbacks,
                   published>>

\* Who may throw here: a callback, the walk between callbacks, or the command.
Thrower == IF ~InStream THEN "command" ELSE IF callback = Idle THEN "walk" ELSE "sink"

Throw(kind) ==
    /\ Running
    /\ Raise(Thrower, kind)
    /\ UNCHANGED clock_vars

RefuseInterval ==
    /\ \E t \in 0 .. ClockLimit :
          /\ now_ns(t)
          /\ \/ StageEnds /\ ~Forward(started, t)
             \/ InStream /\ callback # Idle /\ ~Forward(CallbackStart, t)
    /\ Raise("telemetry", "invalid_argument")

Relabelled == [from |-> "malformed MAP input", kind |-> "invalid_argument", wrapped |-> FALSE]

\* Mutant: a failure of a callback is not told from one of the walk.
Caught_unwrapped(e) ==
    IF e.from \in {"walk", "sink"} /\ e.kind = "json" THEN Relabelled ELSE [e EXCEPT !.wrapped = FALSE]

\* The catch clauses of stream_resolved_task_accesses, in their order.
Caught(e) == IF e.wrapped THEN [e EXCEPT !.wrapped = FALSE]
             ELSE IF e.from = "walk" /\ e.kind = "json" THEN Relabelled
             ELSE e

\* main reports it, with nothing published; the collector goes with its scope.
Unwind ==
    /\ step \in DOMAIN Steps /\ thrown # NoError
    /\ error' = Caught(error)
    /\ step' = Len(Steps) + 2
    /\ stage_times' = Nothing /\ started_at' = 0 /\ clock' = 0 /\ backwards' = FALSE
    /\ started' = Idle /\ callback' = Idle /\ callbacks' = 0
    /\ UNCHANGED <<option_vars, thrown, published>>

-----------------------------------------------------------------------------
ExclusiveTime == SumFunctionOnSet(stage_times, Timed)

validate_analysis_telemetry(total) ==
    /\ \A s \in Stages : stage_times[s] # Unmeasured
    /\ ExclusiveTime <= total
    /\ stage_times["HierarchyAnalysis"] <= stage_times["ResolveAndStream"]

TakeSnapshot ==
    /\ At("snapshot")
    /\ \E t \in 0 .. ClockLimit :
          /\ now_ns(t)
          /\ Collecting => started_at <= t /\ validate_analysis_telemetry(t - started_at)
    /\ step' = step + 1
    /\ UNCHANGED <<option_vars, started_at, stage_times, started, callback, callbacks, thrown,
                   error, published>>

\* Measurements that contradict each other end the command, behind all its work.
RefuseSnapshot ==
    /\ At("snapshot") /\ Collecting
    /\ \E t \in 0 .. ClockLimit :
          /\ now_ns(t)
          /\ t < started_at \/ ~validate_analysis_telemetry(t - started_at)
    /\ Raise("telemetry", "invalid_argument")

DocumentsAsked ==
    (IF options.paths["--export-events"] # NoPath THEN <<"EVENTS">> ELSE <<>>)
    \o (IF Collecting THEN <<"TELEMETRY">> ELSE <<>>) \o <<"RESULT">>

Publish ==
    /\ At("publish")
    /\ published' = DocumentsAsked
    /\ step' = step + 1
    /\ UNCHANGED <<option_vars, clock_vars, started_at, stage_times, started, callback,
                   callbacks, thrown, error>>

CommandNext ==
    \/ OptionsNext /\ UNCHANGED command_vars
    \/ Dispatch \/ DoUntimed \/ StartStage \/ FinishStage \/ StartCallback
    \/ FinishCallback \/ RefuseInterval \/ TakeSnapshot \/ RefuseSnapshot \/ Publish
    \/ Unwind \/ \E kind \in Kinds : Throw(kind)

CommandSpec == CommandInit /\ [][CommandNext]_<<option_vars, command_vars>>
-----------------------------------------------------------------------------
\* Unless the clock went backwards, the measurements of an analysis are never
\* refused: every stage has been measured, the stages lie apart and inside the whole,
\* and the callbacks inside the stream, even one under way (finish_stage, snapshot,
\* validate_analysis_telemetry).
TelemetryAccepted ==
    Collecting /\ step \in DOMAIN Steps /\ ~backwards =>
        LET time == [s \in Stages |-> IF stage_times[s] = Unmeasured THEN 0 ELSE stage_times[s]]
            passed == SumFunctionOnSet(time, Timed)
            open == IF started = Idle THEN 0 ELSE clock - started
        IN  /\ thrown.from # "telemetry"
            /\ passed + open <= clock - started_at
            /\ Steps[step] = "ResolveAndStream" => time["HierarchyAnalysis"] <= open
            /\ step >= 8 => \A s \in Stages : stage_times[s] # Unmeasured

\* An exception keeps its type and its origin on the way to the user, except that
\* JSON trouble of the walk is reported as a malformed module; one of a sink never
\* is, whatever its type (invoke_task_sink, stream_resolved_task_accesses).
ErrorsKeepTheirSource ==
    step = Len(Steps) + 2 =>
        /\ published = <<>>
        /\ error = IF thrown.from = "walk" /\ thrown.kind = "json" THEN Relabelled ELSE thrown
=============================================================================
