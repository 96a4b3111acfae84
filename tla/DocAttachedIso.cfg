SPECIFICATION Spec
CONSTANTS
    N = 2
    OptionSet <- BuildOptions
    Uploaded <- NoNodes
INVARIANTS
    AttachedIsoIsStored
