SPECIFICATION FairSpec
CONSTANTS
    N = 2
    OptionSet <- AllOptions
    Uploaded <- JustFirst
INVARIANTS
    TypeOK
    TokensAreHeld
    UploadsSerialized
    RootCauseReported
    NothingLeftRunning
    InstallerUndisturbed
    OkMeansComplete
    ApplyErrorsComplete
    FinalizeErrorsComplete
PROPERTIES
    OthersUntouched
    NothingNewAfterCancel
    KeepsPromise
    UpTerminates
