-------------------------- MODULE BenchmarkRunProofs --------------------------
(***************************************************************************)
(* Proofs about BenchmarkRun for any number of trials, batch size, list of *)
(* tasks and filter, under BatchAssumption and OrderAssumption.            *)
(***************************************************************************)
EXTENDS BenchmarkRun, ListProofs

-----------------------------------------------------------------------------
(* The inductive invariant.                                                *)

Requested(t) == filter = {} \/ TaskOf[t] \in filter

(* The trials of the batches submitted so far.                             *)
Batched == PlanRange(1, next - 1)

(* What a thread has done and will return follows from where it is.        *)
ThreadState(t) ==
    /\ tpc[t] \in {"idle", "start", "run"} => ret[t] = "none" /\ ends[t] = 0
    /\ tpc[t] \in {"run", "end"} => Requested(t)
    /\ tpc[t] = "end" => ret[t] \in Ran /\ ends[t] = 0
    /\ tpc[t] = "finished" =>
          /\ ret[t] \in (IF Requested(t) THEN Ran ELSE {"skipped"}) \cup {"unstarted"}
          /\ ends[t] = IF ret[t] \in Ran THEN 1 ELSE 0

Threads == \A t \in Trials : ThreadState(t)

(* A trial is planned once, and every trial asked for is planned before    *)
(* the first batch.                                                        *)
Plans ==
    /\ \A i, j \in 1..Len(plan) : plan[i] = plan[j] => i = j
    /\ mpc = "start" => plan = <<>>
    /\ mpc \notin {"start", "done"} \/ submitted \/ artifact # NoArtifact =>
          \A t \in Trials : Requested(t) => \E i \in 1..Len(plan) : plan[i] = t

(* Exactly the trials of a batch have a thread, and threads run only while *)
(* the main thread waits for a batch.                                      *)
Batches ==
    /\ \A t \in Trials : tpc[t] # "idle" <=> t \in Batched
    /\ mpc \notin {"wait", "drain"} => Active = {}

(* Outputs are those of finished threads, and none is missing once a batch *)
(* has ended, unless the wait was interrupted.                             *)
Collected ==
    /\ \A t \in Trials : outputs[t] # "none" => tpc[t] = "finished" /\ outputs[t] = ret[t]
    /\ mpc \notin {"wait", "drain"} /\ ~interrupted =>
          \A t \in Batched : outputs[t] # "none"

(* What a test case has of the output of a thread.                         *)
RecordsOf(case, output) ==
    /\ case # NoCase
    /\ case.shows = Shown(output)
    /\ case.error # "harness" => (case.error = "thread" <=> Failed(output))

(* How far the main thread is.                                             *)
Closing ==
    /\ interrupted => mpc \notin {"start", "batch", "wait"}
    /\ mpc = "drain" => interrupted
    /\ mpc \in {"submit", "artifact"} \/ submitted \/ artifact # NoArtifact =>
          interrupted \/ next > Len(plan)
    /\ submitted => mpc \in {"artifact", "done"}
    /\ mpc = "artifact" => filter = {}
    /\ artifact # NoArtifact => mpc = "done" /\ filter = {}
    /\ artifact # NoArtifact /\ ~interrupted =>
          \A t \in Trials : outputs[t] # "none" => RecordsOf(artifact[t], outputs[t])

IInv == TypeOK /\ Threads /\ Plans /\ Batches /\ Collected /\ Closing

-----------------------------------------------------------------------------
(* The plan is made of the trials whose tasks are asked for, as far as the *)
(* benchmark tells, and has each of them once.                             *)
LEMMA PlanIsRight ==
    ASSUME TypeOK
    PROVE  LET made == Kept(TrialIds, Planned)
           IN  /\ made \in Seq(Trials)
               /\ \A i, j \in 1..Len(made) : made[i] = made[j] => i = j
               /\ \A t \in Trials : Requested(t) => \E i \in 1..Len(made) : made[i] = t
  <1> DEFINE made == Kept(TrialIds, Planned)
  <1>1. /\ TrialIds \in Seq(Trials) /\ DOMAIN TrialIds = 1..Len(TrialIds)
        /\ \A i, j \in 1..Len(TrialIds) : TrialIds[i] = TrialIds[j] => i = j
        /\ \A t \in Trials : \E i \in 1..Len(TrialIds) : TrialIds[i] = t
    BY BatchAssumption
  <1>2. Planned \in SUBSET (1..Len(TrialIds))
    BY <1>1 DEF Planned
  <1>3. made \in Seq(Trials) /\ \E pos : Selects(made, TrialIds, Planned, pos)
    BY <1>1, <1>2, KeptSelects
  <1>4. PICK pos : Selects(made, TrialIds, Planned, pos)
    BY <1>3
  <1> HIDE DEF made
  <1>5. /\ \A k \in 1..Len(made) : pos[k] \in 1..Len(TrialIds) /\ made[k] = TrialIds[pos[k]]
        /\ \A k, l \in 1..Len(made) : k < l => pos[k] < pos[l]
        /\ \A i \in Planned : \E k \in 1..Len(made) : pos[k] = i
    BY <1>2, <1>4 DEF Selects
  <1>6. ASSUME NEW k \in 1..Len(made), NEW l \in 1..Len(made), made[k] = made[l]
        PROVE  k = l
    <2>1. pos[k] = pos[l]
      BY <1>1, <1>5, <1>6
    <2>2. pos[k] \in Int /\ ~(k < l) /\ ~(l < k)
      BY <1>5, <2>1
    <2> QED
      BY <1>3, <2>2
  <1>7. ASSUME NEW t \in Trials, Requested(t) PROVE \E k \in 1..Len(made) : made[k] = t
    <2>1. PICK i \in 1..Len(TrialIds) : TrialIds[i] = t
      BY <1>1
    <2>2. Len(benchmark) = Len(TrialIds) => benchmark[i] = TaskOf[t]
      BY <1>1, <2>1, OrderAssumption DEF TypeOK
    <2>3. i \in Planned
      BY <1>1, <1>7, <2>2 DEF Planned, Requested
    <2>4. PICK k \in 1..Len(made) : pos[k] = i
      BY <1>5, <2>3
    <2> QED
      BY <1>5, <2>1, <2>4
  <1> QED
    BY <1>3, <1>6, <1>7 DEF made

LEMMA InitIInv == Init => IInv
  <1> SUFFICES ASSUME Init PROVE IInv
    OBVIOUS
  <1>1. TypeOK
    <2>1. <<>> \in Seq(Trials) /\ 1 \in 1..Len(<<>>) + 1
      OBVIOUS
    <2>2. Blank \in [Trials -> Outputs] /\ NoArtifact \in [Trials -> Cases \cup {NoCase}]
      BY DEF Blank, Outputs, NoArtifact
    <2> QED
      BY <2>1, <2>2 DEF Init, TypeOK
  <1>2. Batched = {}
    BY DEF Init, Batched, PlanRange
  <1>3. Threads /\ Plans /\ Batches /\ Collected /\ Closing
    BY <1>2 DEF Init, Threads, ThreadState, Plans, Batches, Collected, Closing, NoArtifact, Blank, Active
  <1> QED
    BY <1>1, <1>3 DEF IInv

-----------------------------------------------------------------------------
(* The steps of the main thread.                                           *)

LEMMA StartRunIInv ==
    ASSUME IInv, StartRun
    PROVE  IInv'
  <1>1. next = 1 /\ plan = <<>> /\ artifact = NoArtifact /\ ~submitted
    BY DEF IInv, TypeOK, Plans, Closing, StartRun
  <1>2. /\ plan' \in Seq(Trials)
        /\ \A i, j \in 1..Len(plan') : plan'[i] = plan'[j] => i = j
        /\ \A t \in Trials : Requested(t) => \E i \in 1..Len(plan') : plan'[i] = t
    BY PlanIsRight DEF IInv, StartRun
  <1>3. UNCHANGED <<filter, benchmark, next, outputs, interrupted, tpc, ret, began, ends,
                    submitted, artifact>> /\ mpc' = "batch"
    BY DEF StartRun, settings, threadVars, closeVars
  <1>4. Batched = {} /\ Batched' = {}
    BY <1>1, <1>3 DEF Batched, PlanRange
  <1>5. TypeOK'
    BY <1>1, <1>2, <1>3 DEF IInv, TypeOK
  <1>6. Threads'
    BY <1>3 DEF IInv, Threads, ThreadState, Requested
  <1>7. Plans'
    BY <1>2, <1>3 DEF Plans, Requested
  <1>8. Batches' /\ Collected' /\ Closing'
    BY <1>1, <1>3, <1>4 DEF IInv, Batches, Collected, Closing, Active, StartRun
  <1> QED
    BY <1>5, <1>6, <1>7, <1>8 DEF IInv

(* A new batch: its trials had no thread, and get one.                     *)
LEMMA StartBatchIInv ==
    ASSUME IInv, StartBatch
    PROVE  IInv'
  <1>1. /\ UNCHANGED <<filter, benchmark, plan, outputs, interrupted, ret, began, ends,
                       submitted, artifact>>
        /\ mpc = "batch" /\ mpc' = "wait" /\ next' = BatchEnd + 1 /\ next <= Len(plan)
    BY DEF StartBatch, settings, closeVars
  <1>2. plan \in Seq(Trials) /\ Len(plan) \in Nat /\ next \in 1..Len(plan) + 1
    BY DEF IInv, TypeOK
  <1>3. BatchEnd \in next..Len(plan)
    BY <1>1, <1>2, BatchAssumption DEF BatchEnd, Min
  <1> DEFINE new == PlanRange(next, BatchEnd)
  <1>4. \A t \in Trials : tpc'[t] = IF t \in new THEN "start" ELSE tpc[t]
    BY DEF StartBatch
  <1>5. new \subseteq Trials /\ Batched' = Batched \cup new /\ Batched \cap new = {}
    <2>1. \A i \in 1..Len(plan) : plan[i] \in Trials
      BY <1>2
    <2>2. \A i, j \in 1..Len(plan) : plan[i] = plan[j] => i = j
      BY DEF IInv, Plans
    <2>3. next' - 1 = BatchEnd
      BY <1>1, <1>3
    <2> QED
      BY <1>1, <1>2, <1>3, <2>1, <2>2, <2>3 DEF Batched, PlanRange
  <1> HIDE DEF new
  <1>6. \A t \in new : tpc[t] = "idle" /\ outputs[t] = "none"
    BY <1>5 DEF IInv, Batches, Collected
  <1>7. TypeOK'
    <2>1. tpc' \in [Trials -> {"idle", "start", "run", "end", "finished"}]
      BY DEF StartBatch, IInv, TypeOK
    <2>2. next' \in 1..Len(plan') + 1
      BY <1>1, <1>2, <1>3
    <2> QED
      BY <1>1, <2>1, <2>2 DEF IInv, TypeOK
  <1>8. Threads'
    BY <1>1, <1>4, <1>6 DEF IInv, Threads, ThreadState, Requested
  <1>9. Plans'
    BY <1>1 DEF IInv, Plans, Requested
  <1>10. Batches'
    BY <1>1, <1>4, <1>5 DEF IInv, Batches
  <1>11. Collected'
    BY <1>1, <1>4, <1>6 DEF IInv, Collected
  <1>12. Closing'
    BY <1>1 DEF IInv, Closing, NoArtifact
  <1> QED
    BY <1>7, <1>8, <1>9, <1>10, <1>11, <1>12 DEF IInv

LEMMA CollectIInv ==
    ASSUME IInv, NEW t \in Trials, Collect(t)
    PROVE  IInv'
  <1>1. /\ UNCHANGED <<filter, benchmark, mpc, plan, next, interrupted, tpc, ret, began,
                       ends, submitted, artifact>>
        /\ mpc = "wait" /\ tpc[t] = "finished"
    BY DEF Collect, settings, threadVars, closeVars
  <1>2. outputs' \in [Trials -> Outputs]
        /\ \A u \in Trials : outputs'[u] = IF u = t THEN ret[t] ELSE outputs[u]
    BY DEF Collect, IInv, TypeOK
  <1>3. TypeOK'
    BY <1>1, <1>2 DEF IInv, TypeOK
  <1>4. Threads' /\ Plans' /\ Batches'
    BY <1>1 DEF IInv, Threads, ThreadState, Requested, Plans, Batches, Batched, PlanRange,
                Active, NoArtifact
  <1>5. Collected'
    BY <1>1, <1>2 DEF IInv, Collected
  <1>6. Closing'
    BY <1>1 DEF IInv, Closing, NoArtifact
  <1> QED
    BY <1>3, <1>4, <1>5, <1>6 DEF IInv

(* A batch ends when the output of each of its threads has been collected. *)
LEMMA EndBatchIInv ==
    ASSUME IInv, EndBatch
    PROVE  IInv'
  <1>1. /\ UNCHANGED <<filter, benchmark, plan, next, outputs, interrupted, tpc, ret, began,
                       ends, submitted, artifact>>
        /\ mpc = "wait" /\ mpc' = "batch" /\ \A t \in Batched : outputs[t] # "none"
    BY DEF EndBatch, settings, threadVars, closeVars, Batched
  <1>2. Active = {}
    BY <1>1 DEF IInv, Batches, Collected, Active
  <1>3. TypeOK' /\ Threads' /\ Plans'
    BY <1>1 DEF IInv, TypeOK, Threads, ThreadState, Requested, Plans, NoArtifact
  <1>4. Batches' /\ Collected' /\ Closing'
    BY <1>1, <1>2 DEF IInv, Batches, Collected, Closing, Active, Batched, PlanRange, NoArtifact
  <1> QED
    BY <1>3, <1>4 DEF IInv

LEMMA LeaveBatchesIInv ==
    ASSUME IInv, StartRunFails \/ Interrupt \/ Drained \/ BatchesDone
    PROVE  IInv'
  <1>1. /\ UNCHANGED <<filter, benchmark, plan, next, outputs, tpc, ret, began, ends,
                       submitted, artifact>>
        /\ Batched' = Batched /\ Active' = Active
    BY DEF StartRunFails, Interrupt, Drained, BatchesDone, settings, threadVars, closeVars,
           Batched, PlanRange, Active
  <1>2. TypeOK' /\ Threads'
    BY <1>1 DEF IInv, TypeOK, Threads, ThreadState, Requested,
                StartRunFails, Interrupt, Drained, BatchesDone
  <1>3. Plans'
    BY <1>1 DEF IInv, Plans, Requested, NoArtifact, StartRunFails, Interrupt, Drained, BatchesDone
  <1>4. Active = {} \/ mpc' \in {"wait", "drain"}
    BY DEF IInv, Batches, Active, StartRunFails, Interrupt, Drained, BatchesDone, TypeOK
  <1>5. Batches'
    BY <1>1, <1>4 DEF IInv, Batches
  <1>6. Collected'
    BY <1>1 DEF IInv, Collected, Closing, StartRunFails, Interrupt, Drained, BatchesDone
  <1>7. Closing'
    BY <1>1 DEF IInv, Closing, NoArtifact, StartRunFails, Interrupt, Drained, BatchesDone
  <1> QED
    BY <1>2, <1>3, <1>5, <1>6, <1>7 DEF IInv

LEMMA CloseIInv ==
    ASSUME IInv, SubmitRun \/ SubmitRunFails \/ WriteArtifact
    PROVE  IInv'
  <1>1. /\ UNCHANGED <<filter, benchmark, plan, next, outputs, interrupted, tpc, ret, began,
                       ends>>
        /\ Batched' = Batched /\ Active' = Active
        /\ mpc \in {"submit", "artifact"} /\ mpc' \in {"artifact", "done"}
        /\ submitted' \in BOOLEAN
    <2>1. CASE SubmitRun \/ SubmitRunFails
      BY <2>1 DEF SubmitRun, SubmitRunFails, settings, threadVars, Batched, PlanRange, Active
    <2>2. CASE WriteArtifact
      BY <2>2 DEF WriteArtifact, settings, threadVars, Batched, PlanRange, Active, IInv, TypeOK
    <2> QED
      BY <2>1, <2>2
  <1>2. /\ mpc = "submit" => artifact' = artifact /\ artifact = NoArtifact
        /\ mpc = "artifact" => mpc' = "done" /\ filter = {}
        /\ mpc' = "artifact" => filter = {}
    BY DEF SubmitRun, SubmitRunFails, WriteArtifact, IInv, Closing
  <1>3. /\ artifact' \in [Trials -> Cases \cup {NoCase}]
        /\ mpc = "artifact" =>
              \A t \in Trials : outputs[t] # "none" => RecordsOf(artifact'[t], outputs[t])
    <2>1. CASE mpc = "submit"
      BY <1>2, <2>1 DEF IInv, TypeOK
    <2>2. CASE mpc = "artifact"
      <3>1. PICK listed \in {Trials, {}} : artifact' = [t \in Trials |->
                IF t \in listed THEN ListedCase(outputs[t]) ELSE LeftCase(outputs[t])]
        BY <2>2 DEF SubmitRun, SubmitRunFails, WriteArtifact
      <3>2. \A t \in Trials : /\ ListedCase(outputs[t]) \in Cases
                              /\ LeftCase(outputs[t]) \in Cases \cup {NoCase}
        BY DEF ListedCase, LeftCase, Shown, Cases
      <3>3. \A t \in Trials : outputs[t] # "none" =>
               /\ RecordsOf(ListedCase(outputs[t]), outputs[t])
               /\ RecordsOf(LeftCase(outputs[t]), outputs[t])
        BY DEF RecordsOf, ListedCase, LeftCase, NoCase, Shown
      <3> QED
        BY <3>1, <3>2, <3>3
    <2> QED
      BY <1>1, <2>1, <2>2
  <1>4. TypeOK'
    BY <1>1, <1>3 DEF IInv, TypeOK
  <1>5. Threads'
    BY <1>1 DEF IInv, Threads, ThreadState, Requested
  <1>6. Plans'
    BY <1>1 DEF IInv, Plans, Requested
  <1>7. Batches' /\ Collected'
    BY <1>1 DEF IInv, Batches, Collected
  <1>8. Closing'
    BY <1>1, <1>2, <1>3 DEF IInv, Closing, NoArtifact
  <1> QED
    BY <1>4, <1>5, <1>6, <1>7, <1>8 DEF IInv

-----------------------------------------------------------------------------
(* The steps of a thread.  Threads run only while the main thread waits,   *)
(* and the output of one that runs has not been collected.                 *)
LEMMA ThreadIInv ==
    ASSUME IInv, NEW t \in Trials, Thread(t)
    PROVE  IInv'
  <1>1. UNCHANGED <<filter, benchmark, mpc, plan, next, outputs, interrupted,
                    submitted, artifact>>
    BY DEF Thread, StartTrial, StartTrialFails, RunAgent, EndTrial, settings, mainVars,
           closeVars
  <1>2. /\ tpc[t] \in {"start", "run", "end"} /\ tpc'[t] # "idle"
        /\ \A u \in Trials \ {t} : tpc'[u] = tpc[u] /\ ret'[u] = ret[u] /\ ends'[u] = ends[u]
    BY DEF Thread, StartTrial, StartTrialFails, RunAgent, EndTrial, Goto, Returns, IInv, TypeOK
  <1>3. mpc \in {"wait", "drain"} /\ outputs[t] = "none" /\ t \in Batched
    BY <1>2 DEF IInv, Batches, Collected, Active
  <1>4. TypeOK'
    <2>1. /\ tpc' \in [Trials -> {"idle", "start", "run", "end", "finished"}]
          /\ ret' \in [Trials -> Outputs] /\ began' \subseteq Trials
          /\ ends' \in [Trials -> Nat]
      <3> tpc \in [Trials -> {"idle", "start", "run", "end", "finished"}]
          /\ ret \in [Trials -> Outputs] /\ ends \in [Trials -> Nat] /\ began \subseteq Trials
        BY DEF IInv, TypeOK
      <3>1. CASE StartTrial(t) \/ StartTrialFails(t)
        BY <3>1 DEF StartTrial, StartTrialFails, Goto, Returns, Outputs
      <3>2. CASE RunAgent(t)
        BY <3>2 DEF RunAgent, Goto, Returns, Outputs, Ran
      <3>3. CASE EndTrial(t)
        BY <3>3 DEF EndTrial, Goto
      <3> QED
        BY <3>1, <3>2, <3>3 DEF Thread
    <2> QED
      BY <1>1, <2>1 DEF IInv, TypeOK
  <1>5. ThreadState(t)'
    <2> ThreadState(t) /\ tpc \in [Trials -> {"idle", "start", "run", "end", "finished"}]
        /\ ret \in [Trials -> Outputs] /\ ends \in [Trials -> Nat]
      BY DEF IInv, Threads, TypeOK
    <2>1. CASE StartTrial(t)
      BY <2>1, <1>1 DEF StartTrial, Goto, Returns, ThreadState, Requested, Ran
    <2>2. CASE StartTrialFails(t)
      BY <2>2, <1>1 DEF StartTrialFails, Goto, Returns, ThreadState, Requested, Ran
    <2>3. CASE RunAgent(t)
      BY <2>3, <1>1 DEF RunAgent, Goto, Returns, ThreadState, Requested, Ran
    <2>4. CASE EndTrial(t)
      BY <2>4, <1>1 DEF EndTrial, Goto, ThreadState, Requested, Ran
    <2> QED
      BY <2>1, <2>2, <2>3, <2>4 DEF Thread
  <1>6. Threads'
    BY <1>1, <1>2, <1>5 DEF IInv, Threads, ThreadState, Requested
  <1>7. Plans'
    BY <1>1 DEF IInv, Plans, Requested, NoArtifact
  <1>8. Batched' = Batched
    BY <1>1 DEF Batched, PlanRange
  <1>9. Batches' /\ Collected'
    BY <1>1, <1>2, <1>3, <1>8 DEF IInv, Batches, Collected
  <1>10. Closing'
    BY <1>1 DEF IInv, Closing, NoArtifact
  <1> QED
    BY <1>4, <1>6, <1>7, <1>9, <1>10 DEF IInv

LEMMA NextIInv == IInv /\ [Next]_vars => IInv'
  <1> SUFFICES ASSUME IInv, [Next]_vars PROVE IInv'
    OBVIOUS
  <1>1. CASE UNCHANGED vars
    BY <1>1 DEF vars, settings, mainVars, threadVars, closeVars, IInv, TypeOK, Threads,
                ThreadState, Requested, Plans, Batches, Batched, PlanRange, Active, Collected,
                Closing, NoArtifact
  <1>2. CASE Main
    BY <1>2, StartRunIInv, StartBatchIInv, CollectIInv, EndBatchIInv, LeaveBatchesIInv,
       CloseIInv DEF Main
  <1>3. CASE \E t \in Trials : Thread(t)
    BY <1>3, ThreadIInv
  <1> QED
    BY <1>1, <1>2, <1>3 DEF Next

LEMMA Invariant == Spec => []IInv
  BY InitIInv, NextIInv, PTL DEF Spec

-----------------------------------------------------------------------------
(* The state of the process keeps its types (main.py:311-420).             *)
THEOREM TypeCorrect == Spec => []TypeOK
  <1>1. IInv => TypeOK
    BY DEF IInv
  <1> QED
    BY Invariant, <1>1, PTL

(* No trial is left running or ended twice when the run is submitted,      *)
(* interrupted or not (main.py:357-395).                                   *)
THEOREM TrialsEnded == Spec => []EndedBeforeSubmit
  <1>1. IInv => EndedBeforeSubmit
    <2> SUFFICES ASSUME IInv, mpc \in {"submit", "artifact"} \/ submitted, NEW t \in Trials
                 PROVE  Active = {} /\ ends[t] = IF ret[t] \in Ran THEN 1 ELSE 0
      BY DEF EndedBeforeSubmit, IInv, Batches, Closing
    <2>1. Active = {}
      BY DEF IInv, Batches, Closing
    <2>2. tpc[t] \in {"idle", "finished"}
      BY <2>1 DEF Active, IInv, TypeOK
    <2> QED
      BY <2>1, <2>2 DEF IInv, Threads, ThreadState, Ran
  <1> QED
    BY Invariant, <1>1, PTL

(* The artifact of an uninterrupted full run shows every result under its  *)
(* own trial, and every error unless the harness lists the trial           *)
(* (main.py:157-232, 365-372).                                             *)
THEOREM OutputsRecorded == Spec => []RecordedInFull
  <1>1. IInv => RecordedInFull
    <2> SUFFICES ASSUME IInv, artifact # NoArtifact, ~interrupted, NEW t \in Trials
                 PROVE  ret[t] # "none" /\ RecordsOf(artifact[t], ret[t])
      BY DEF RecordedInFull, RecordsOf
    <2>1. mpc = "done" /\ Requested(t) /\ next > Len(plan)
      BY DEF IInv, Closing, Requested
    <2>2. t \in Batched
      <3>1. PICK i \in 1..Len(plan) : plan[i] = t
        BY <2>1 DEF IInv, Plans
      <3>2. i \in 1..next - 1
        BY <2>1 DEF IInv, TypeOK
      <3> QED
        BY <3>1, <3>2 DEF Batched, PlanRange
    <2> QED
      BY <2>1, <2>2 DEF IInv, Collected, Closing
  <1> QED
    BY Invariant, <1>1, PTL

(* An uninterrupted run tries what was asked for and no more, whether the  *)
(* filter could be applied before the start or not (main.py:339-356, 194). *)
THEOREM RequestsTried == Spec => []RequestedAreTried
  <1>1. IInv => RequestedAreTried
    <2> SUFFICES ASSUME IInv, submitted, ~interrupted, NEW t \in Trials
                 PROVE  IF Requested(t) THEN ret[t] \in Ran \cup {"unstarted"}
                        ELSE ret[t] \in {"none", "skipped", "unstarted"}
      BY DEF RequestedAreTried, Requested
    <2>1. mpc \in {"artifact", "done"} /\ next > Len(plan) /\ tpc[t] \in {"idle", "finished"}
      BY DEF IInv, Closing, Batches, Active, TypeOK
    <2>2. ASSUME Requested(t) PROVE tpc[t] = "finished"
      <3>1. PICK i \in 1..Len(plan) : plan[i] = t
        BY <2>1, <2>2 DEF IInv, Plans
      <3>2. i \in 1..next - 1
        BY <2>1 DEF IInv, TypeOK
      <3>3. t \in Batched
        BY <3>1, <3>2 DEF Batched, PlanRange
      <3> QED
        BY <2>1, <3>3 DEF IInv, Batches
    <2> QED
      BY <2>1, <2>2 DEF IInv, Threads, ThreadState
  <1> QED
    BY Invariant, <1>1, PTL
=============================================================================
