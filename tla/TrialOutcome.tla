---------------------------- MODULE TrialOutcome ----------------------------
(***************************************************************************)
(* What the loop over the tasks of a benchmark may rely on when it calls   *)
(* run_agent, with the startup, the preflights and the model hidden: the   *)
(* trial changes files while it works, submits at most one answer, and     *)
(* ends with that submission or with an error.  It promises no end: a call *)
(* without a deadline may hold it up, before or after the submission.      *)
(* Module AgentRun is shown to implement this one.                         *)
(***************************************************************************)
EXTENDS Naturals

CONSTANT Ways  \* ways of changing files

VARIABLES phase,      \* "working", "answered", "returned" or "raised"
          touched,    \* the ways used so far
          answers,    \* answers submitted
          completed   \* what the result says

vars == <<phase, touched, answers, completed>>

Init == /\ phase = "working"
        /\ touched = {}
        /\ answers = 0
        /\ completed = FALSE

Change == /\ phase = "working"
          /\ touched' \in SUBSET Ways /\ touched \subseteq touched'
          /\ UNCHANGED <<phase, answers, completed>>

\* The submission is the last thing a trial does to the runtime, whether it
\* succeeds or not; what is left is to return.
Answer == /\ phase = "working"
          /\ answers' = answers + 1
          /\ \/ phase' = "returned" /\ completed' \in BOOLEAN
             \/ phase' = "raised" /\ completed' = FALSE
             \/ phase' = "answered" /\ completed' = FALSE
          /\ UNCHANGED touched

Return == /\ phase = "answered"
          /\ phase' = "returned" /\ completed' = TRUE
          /\ UNCHANGED <<touched, answers>>

\* An error that nothing catches; a deletion may have been under way.
Abort == /\ phase = "working"
         /\ phase' = "raised"
         /\ touched' \in SUBSET Ways /\ touched \subseteq touched'
         /\ UNCHANGED <<answers, completed>>

Next == Change \/ Answer \/ Return \/ Abort

Spec == Init /\ [][Next]_vars
=============================================================================
