SPECIFICATION Spec
CONSTANTS
    agents = agents
    policy = policy
    command = command
    Tasks <- MCTasks
    Docs <- MCDocs
    AgentsMd = agents
    Commands <- MCCommands
    MaxSteps = 2
    RuntimeTimeout = 300
    MaxCalls = 2
INVARIANTS
    TypeOK
    ContextWellFormed
    AnsweredOnce
    OverrideChangesNothing
    ReadDocsAreLoaded
PROPERTIES
    Terminates
    ImplementsOutcome
\* a trial stops when it has returned or raised
CHECK_DEADLOCK FALSE
