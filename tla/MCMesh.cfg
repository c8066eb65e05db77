CONSTANTS
    Node = {1, 2, 3, 4}
    AnycastCost = 2
    TreeCost = 2
    Roots = {2}
    LinkMaps <- TreeMaps
    Scenarios <- MCScenarios
SPECIFICATION MeshSpec
INVARIANTS SettledRoutesDeliver NoEndlessLoop
PROPERTY ImplementsPromise
CHECK_DEADLOCK FALSE
