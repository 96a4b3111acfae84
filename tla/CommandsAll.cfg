SPECIFICATION Spec
CONSTANTS
    Ops = {a}
    N = 1
    Verbs = {"up", "create", "create-build", "finalize", "down", "down-force", "start", "stop", "stop-force", "reboot", "delete", "eject-iso", "configure-first-boot", "snapshot-create", "snapshot-restore", "snapshot-delete"}
    MaxCommands = 3
INVARIANTS TypeOK GoalReached
PROPERTY InstalledStays
