---------------------------- MODULE BenchmarkRun ----------------------------
(***************************************************************************)
(* main.py: one process starts a run, works through its trials in batches  *)
(* of threads, submits the run and writes the run artifact.  A thread is   *)
(* _run_trial: start_trial, run_agent, end_trial.  What run_agent does     *)
(* inside is module AgentRun; here it is what TrialOutcome promises, a     *)
(* result or an error.  The user may interrupt the main thread once while  *)
(* it waits for a batch.                                                   *)
(***************************************************************************)
EXTENDS Lists

CONSTANTS Trials,        \* the trial ids of the run
          TrialIds,      \* run.trial_ids, in order
          TaskOf,        \* the task the harness gives each trial
          Benchmarks,    \* possible lists of task ids of the benchmark
          Filters,       \* possible task filters, {} is a full run
          BatchSize      \* TRIAL_BATCH_SIZE

ASSUME BatchAssumption ==
    /\ BatchSize \in Nat \ {0}
    /\ TrialIds \in Seq(Trials) /\ {TrialIds[i] : i \in DOMAIN TrialIds} = Trials
    /\ \A i, j \in DOMAIN TrialIds : TrialIds[i] = TrialIds[j] => i = j

\* What the code relies on when the lists are as long: the harness lists the
\* tasks in the order of the trials.
ASSUME OrderAssumption ==
    \A list \in Benchmarks : Len(list) = Len(TrialIds) =>
        \A i \in DOMAIN TrialIds : list[i] = TaskOf[TrialIds[i]]

VARIABLES
    filter,     \* task_filter_set
    benchmark,  \* benchmark_task_ids
    mpc,        \* where the main thread is
    plan,       \* trial_plan, as trial ids
    next,       \* index in plan of the first trial of no batch yet
    tpc,        \* where the thread of each trial is
    ret,        \* the output each thread returns
    outputs,    \* trial_outputs, "none" for a missing key
    began,      \* trials the harness has started
    ends,       \* end_trial calls per trial
    interrupted,
    submitted,  \* the run was submitted
    artifact    \* the test case of each trial in the artifact

settings == <<filter, benchmark>>
mainVars == <<mpc, plan, next, outputs, interrupted>>
threadVars == <<tpc, ret, began, ends>>
closeVars == <<submitted, artifact>>
vars == <<settings, mainVars, threadVars, closeVars>>

\* The output of a trial: "unstarted" has an error and nothing else.
Ran == {"completed", "incomplete", "error"}
Outputs == Ran \cup {"none", "skipped", "unstarted"}
Blank == [t \in Trials |-> "none"]

\* A test case of the artifact: what it shows of the result of the agent and
\* whose error it has.  A trial the harness lists has the error of the harness
\* and loses the one its thread caught.
Cases == [shows : {"completed", "incomplete", "blank"},
          error : {"harness", "thread", "none"}]
NoCase == [shows |-> "none", error |-> "none"]
NoArtifact == [t \in Trials |-> NoCase]

Failed(output) == output \in {"error", "unstarted"}
Shown(output) == IF output \in {"completed", "incomplete"} THEN output ELSE "blank"
ListedCase(output) == [shows |-> Shown(output), error |-> "harness"]
LeftCase(output) ==
    IF output = "none" THEN NoCase
    ELSE [shows |-> Shown(output), error |-> IF Failed(output) THEN "thread" ELSE "none"]

TypeOK ==
    /\ filter \in Filters /\ benchmark \in Benchmarks
    /\ mpc \in {"start", "batch", "wait", "drain", "submit", "artifact", "done"}
    /\ plan \in Seq(Trials) /\ next \in 1..Len(plan) + 1
    /\ tpc \in [Trials -> {"idle", "start", "run", "end", "finished"}]
    /\ ret \in [Trials -> Outputs] /\ outputs \in [Trials -> Outputs]
    /\ began \subseteq Trials /\ ends \in [Trials -> Nat]
    /\ interrupted \in BOOLEAN /\ submitted \in BOOLEAN
    /\ artifact \in [Trials -> Cases \cup {NoCase}]

Init == /\ filter \in Filters /\ benchmark \in Benchmarks
        /\ mpc = "start" /\ plan = <<>> /\ next = 1
        /\ tpc = [t \in Trials |-> "idle"] /\ ret = Blank /\ outputs = Blank
        /\ began = {} /\ ends = [t \in Trials |-> 0]
        /\ interrupted = FALSE /\ submitted = FALSE /\ artifact = NoArtifact

-----------------------------------------------------------------------------
(* The main thread.                                                        *)

\* Faulty variant: the lists are taken to match whatever their lengths.
PlannedByPosition ==
    {i \in DOMAIN TrialIds :
        filter = {} \/ (i \in DOMAIN benchmark /\ benchmark[i] \in filter)}

\* Task ids are attached to trials by position, when the lists are as long.
Planned == {i \in DOMAIN TrialIds : \/ filter = {}
                                    \/ Len(benchmark) # Len(TrialIds)
                                    \/ benchmark[i] \in filter}

StartRun == /\ mpc = "start"
            /\ plan' = Kept(TrialIds, Planned)
            /\ mpc' = "batch"
            /\ UNCHANGED <<settings, next, outputs, interrupted, threadVars, closeVars>>

\* status, get_benchmark or start_run fails: nothing was started.
StartRunFails == /\ mpc = "start"
                 /\ mpc' = "done"
                 /\ UNCHANGED <<settings, plan, next, outputs, interrupted, threadVars,
                                closeVars>>

Min(a, b) == IF a < b THEN a ELSE b
BatchEnd == Min(next + BatchSize - 1, Len(plan))
PlanRange(from, to) == {plan[i] : i \in from..to}

\* Faulty variant: the index moves on by a whole batch even at the end.
StartBatchUnbounded ==
    /\ mpc = "batch" /\ next <= Len(plan)
    /\ tpc' = [t \in Trials |-> IF t \in PlanRange(next, BatchEnd)
                                THEN "start" ELSE tpc[t]]
    /\ next' = next + BatchSize
    /\ mpc' = "wait"
    /\ UNCHANGED <<settings, plan, outputs, interrupted, ret, began, ends, closeVars>>

\* executor.submit for every trial of the next batch.
StartBatch == /\ mpc = "batch" /\ next <= Len(plan)
              /\ tpc' = [t \in Trials |-> IF t \in PlanRange(next, BatchEnd)
                                          THEN "start" ELSE tpc[t]]
              /\ next' = BatchEnd + 1
              /\ mpc' = "wait"
              /\ UNCHANGED <<settings, plan, outputs, interrupted, ret, began, ends,
                             closeVars>>

\* Faulty variant: the output of some finished thread, under this one's id.
CollectMixed(t) ==
    /\ mpc = "wait"
    /\ tpc[t] = "finished" /\ outputs[t] = "none"
    /\ \E u \in PlanRange(1, next - 1) :
          tpc[u] = "finished" /\ outputs' = [outputs EXCEPT ![t] = ret[u]]
    /\ UNCHANGED <<settings, mpc, plan, next, interrupted, threadVars, closeVars>>

\* One future of as_completed.
Collect(t) == /\ mpc = "wait"
              /\ tpc[t] = "finished" /\ outputs[t] = "none"
              /\ outputs' = [outputs EXCEPT ![t] = ret[t]]
              /\ UNCHANGED <<settings, mpc, plan, next, interrupted, threadVars, closeVars>>

\* as_completed is exhausted.
EndBatch == /\ mpc = "wait"
            /\ \A t \in PlanRange(1, next - 1) : outputs[t] # "none"
            /\ mpc' = "batch"
            /\ UNCHANGED <<settings, plan, next, outputs, interrupted, threadVars, closeVars>>

\* KeyboardInterrupt while the main thread waits for a future.
Interrupt == /\ mpc = "wait"
             /\ mpc' = "drain" /\ interrupted' = TRUE
             /\ UNCHANGED <<settings, plan, next, outputs, threadVars, closeVars>>

\* Faulty variants: no join; a join with the threads of batches never started.
DrainedAtOnce ==
    /\ mpc = "drain"
    /\ mpc' = "submit"
    /\ UNCHANGED <<settings, plan, next, outputs, interrupted, threadVars, closeVars>>

DrainedAll ==
    /\ mpc = "drain"
    /\ \A t \in Trials : tpc[t] = "finished"
    /\ mpc' = "submit"
    /\ UNCHANGED <<settings, plan, next, outputs, interrupted, threadVars, closeVars>>

\* Leaving the with block joins the threads, then the finally block runs.
Drained == /\ mpc = "drain"
           /\ \A t \in Trials : tpc[t] \in {"idle", "finished"}
           /\ mpc' = "submit"
           /\ UNCHANGED <<settings, plan, next, outputs, interrupted, threadVars, closeVars>>

BatchesDone == /\ mpc = "batch" /\ next > Len(plan)
               /\ mpc' = "submit"
               /\ UNCHANGED <<settings, plan, next, outputs, interrupted, threadVars,
                              closeVars>>

\* The result lists the trials, or none of them while scores are sealed.
SubmitRun == /\ mpc = "submit"
             /\ submitted' = TRUE
             /\ mpc' = IF filter = {} THEN "artifact" ELSE "done"
             /\ UNCHANGED <<settings, plan, next, outputs, interrupted, threadVars,
                            artifact>>

\* The run may have been submitted although the call failed; either way the
\* error leaves the finally block before the artifact is written.
SubmitRunFails == /\ mpc = "submit"
                  /\ submitted' \in BOOLEAN
                  /\ mpc' = "done"
                  /\ UNCHANGED <<settings, plan, next, outputs, interrupted, threadVars,
                                 artifact>>

\* _write_run_artifact: the trials of the result, then the outputs left over.
WriteArtifact == /\ mpc = "artifact"
                 /\ \E listed \in {Trials, {}} :
                        artifact' = [t \in Trials |->
                            IF t \in listed THEN ListedCase(outputs[t])
                            ELSE LeftCase(outputs[t])]
                 /\ mpc' = "done"
                 /\ UNCHANGED <<settings, plan, next, outputs, interrupted, threadVars,
                                submitted>>

-----------------------------------------------------------------------------
(* The thread of a trial, _run_trial.                                      *)

Goto(t, where) == tpc' = [tpc EXCEPT ![t] = where]
Returns(t, output) == ret' = [ret EXCEPT ![t] = output]

\* The filter is checked again once the task of the trial is known.
StartTrial(t) ==
    /\ tpc[t] = "start"
    /\ began' = began \cup {t}
    /\ IF filter # {} /\ TaskOf[t] \notin filter
       THEN Goto(t, "finished") /\ Returns(t, "skipped")
       ELSE Goto(t, "run") /\ UNCHANGED ret
    /\ UNCHANGED <<settings, mainVars, ends, closeVars>>

\* The harness may have started the trial all the same.
StartTrialFails(t) ==
    /\ tpc[t] = "start"
    /\ began' \in {began, began \cup {t}}
    /\ Goto(t, "finished") /\ Returns(t, "unstarted")
    /\ UNCHANGED <<settings, mainVars, ends, closeVars>>

\* run_agent returns a result or raises.
RunAgent(t) ==
    /\ tpc[t] = "run"
    /\ Goto(t, "end")
    /\ \E output \in Ran : Returns(t, output)
    /\ UNCHANGED <<settings, mainVars, began, ends, closeVars>>

\* The finally block; an error of end_trial is only noted in the output.
EndTrial(t) ==
    /\ tpc[t] = "end"
    /\ ends' = [ends EXCEPT ![t] = @ + 1]
    /\ Goto(t, "finished")
    /\ UNCHANGED <<settings, mainVars, ret, began, closeVars>>

-----------------------------------------------------------------------------
Main == \/ StartRun \/ StartRunFails
        \/ StartBatch \/ EndBatch \/ Interrupt \/ Drained \/ BatchesDone
        \/ \E t \in Trials : Collect(t)
        \/ SubmitRun \/ SubmitRunFails \/ WriteArtifact

Thread(t) == StartTrial(t) \/ StartTrialFails(t) \/ RunAgent(t) \/ EndTrial(t)

Next == Main \/ \E t \in Trials : Thread(t)

\* Threads are scheduled, run_agent ends (AgentRun!Terminates, which excludes a
\* trial that hangs in the read of an upload) and the calls to the harness return.
Spec == /\ Init /\ [][Next]_vars
        /\ WF_vars(Main)
        /\ \A t \in Trials : WF_vars(Thread(t))

-----------------------------------------------------------------------------
Active == {t \in Trials : tpc[t] \in {"start", "run", "end"}}

(* When the run is submitted no thread is left, and end_trial was called   *)
(* exactly once for every trial whose agent ran, however it ended, and for *)
(* no other; an interrupt changes nothing about that.                      *)
EndedBeforeSubmit ==
    mpc \in {"submit", "artifact"} \/ submitted =>
        /\ Active = {}
        /\ \A t \in Trials : ends[t] = IF ret[t] \in Ran THEN 1 ELSE 0

(* The artifact of an uninterrupted full run has a case for every trial,   *)
(* which shows what its own thread returned, in whatever order the threads *)
(* finished; the error of a thread that failed is there, and no other's,   *)
(* unless the harness lists the trial (main.py:202).                       *)
RecordedInFull ==
    artifact # NoArtifact /\ ~interrupted => \A t \in Trials :
        /\ ret[t] # "none" /\ artifact[t] # NoCase
        /\ artifact[t].shows = Shown(ret[t])
        /\ artifact[t].error # "harness" => (artifact[t].error = "thread" <=> Failed(ret[t]))

(* An uninterrupted run tries exactly the trials whose tasks were asked    *)
(* for, whether the filter could be applied before the start or not.       *)
RequestedAreTried ==
    submitted /\ ~interrupted => \A t \in Trials :
        IF filter = {} \/ TaskOf[t] \in filter
        THEN ret[t] \in Ran \cup {"unstarted"}
        ELSE ret[t] \in {"none", "skipped", "unstarted"}

(* The process ends, whatever the trials do and whether it is interrupted. *)
RunEnds == <>(mpc = "done")

(* main.py: there are local outputs for every started trial, kept in the   *)
(* artifact.  Not so after an interrupt.                                   *)
StartedAreRecorded ==
    artifact # NoArtifact => \A t \in began : artifact[t] # NoCase
=============================================================================
