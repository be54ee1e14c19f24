--------------------------- MODULE MCBenchmarkRun ---------------------------
(* Three trials in batches of two, so that the second batch is not full;   *)
(* two of them on a task that may be asked for.  The benchmark lists its   *)
(* tasks in the order of the trials, or lists fewer.                       *)
EXTENDS BenchmarkRun, TLC

CONSTANTS t1, t2, t3, a, b

MCTrials == {t1, t2, t3}
MCTrialIds == <<t1, t2, t3>>
MCTaskOf == t1 :> b @@ t2 :> a @@ t3 :> a
MCBenchmarks == {<<b, a, a>>, <<a, b>>}
MCFilters == {{}, {a}}
=============================================================================
