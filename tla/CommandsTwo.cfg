SPECIFICATION Spec
CONSTANTS
    Ops = {a, b}
    N = 2
    Verbs = {"up", "create", "finalize", "down", "down-force", "delete", "configure-first-boot"}
    MaxCommands = 2
INVARIANTS GoalReached SetUpByMaker
