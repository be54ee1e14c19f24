------------------------------- MODULE Cascade -------------------------------
(* run_agent before the model is asked: the planner of dispatch waves comes   *)
(* first and closes the trial if it has a plan; otherwise the preflights that *)
(* look at records and files are tried in their order.                        *)
EXTENDS Preflights, DispatchPlanner

\* dispatch_wave_path_from_task: the task names a wave.
NamesWave == "dispatch" \in task.marks

\* The files of a wave that no task names are not looked at.
CascadeInit ==
    /\ Init
    /\ wave \in IF NamesWave THEN Waves ELSE {CHOOSE w \in Waves : TRUE}
    /\ PlannerInit

PlanFirst == NamesWave /\ PlannerNext /\ UNCHANGED vars

\* Without a plan, for whatever reason, the wave is left to those that follow.
Others ==
    /\ NamesWave => phase = "done" /\ plan = <<>>
    /\ Next
    /\ UNCHANGED plannerVars

CascadeNext == PlanFirst \/ Others

CascadeSpec == CascadeInit /\ [][CascadeNext]_<<vars, plannerVars>>
===============================================================================
