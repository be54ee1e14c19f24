------------------------------ MODULE MCCascade ------------------------------
(* The waves of MCDispatchPlanner and the tasks of MCPreflights, and one task *)
(* that names a wave and, when there is no plan for it, files to delete.      *)
EXTENDS Cascade, MCPreflights, MCDispatchPlanner

Dispatches == Case({Task({"dispatch", "cleanup"})}, {Staff}, {{}}, {Files})

MCCascadeCases == MCCases \cup Dispatches
===============================================================================
