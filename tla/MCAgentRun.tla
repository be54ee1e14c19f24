----------------------------- MODULE MCAgentRun -----------------------------
(* Five tasks between which every preflight applies, most of them to tasks *)
(* that an earlier preflight may also close; AGENTS.MD, one more document   *)
(* and one command.                                                         *)
EXTENDS AgentRun

CONSTANTS agents, policy, command

Task(text, parsed) == [text |-> text, parsed |-> parsed]

MCTasks == {
    Task({"dispatch", "date", "no_mutation"}, {"checkout", "mutation"}),
    Task({"hard_override", "action_word"},
         {"mutation", "tmp_path", "checkout"}),
    Task({"refund", "city", "fraud_history"}, {"staff", "mutation", "tmp_path"}),
    Task({"file_mutation"}, {"checkout", "selector"}),
    Task({"action_word"}, {"override", "discount"})}
MCDocs == {agents, policy}
MCCommands == {command}
=============================================================================
