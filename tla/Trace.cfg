SPECIFICATION Spec
CONSTANT MaxRecords = 4
INVARIANTS TypeOK ChainNeverBroken PromisesKept SyncedIsDurable
PROPERTY SyncedStaysReadable
