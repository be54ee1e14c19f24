SPECIFICATION Spec
CONSTANTS
    agents = agents
    policy = policy
    command = command
    Tasks <- MCTasks
    Docs <- MCDocs
    AgentsMd = agents
    Commands <- MCCommands
    MaxSteps = 1
    RuntimeTimeout = 300
    MaxCalls = 1
INVARIANT
    EndsWithSubmission
\* a trial stops when it has returned or raised
CHECK_DEADLOCK FALSE
