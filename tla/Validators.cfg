SPECIFICATION Spec
CONSTANTS
    Names = {"p", "q"}
    Words = {"m", "z", "y", "a", "b", "c", "s", "t", "u"}
    Manifests <- AllManifests
INVARIANTS TypeOK VerdictIsRight ValidatedIsBuildable
