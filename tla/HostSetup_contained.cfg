SPECIFICATION HsSpec
CONSTANTS
    BinaryVersions = {4, 5}
    MaxHostCommands = 3
    MaxPfEdits = 1
    MaxRemovalFailures = 1
INVARIANT AgentContained
CHECK_DEADLOCK FALSE
