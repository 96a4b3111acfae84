SPECIFICATION Spec
CONSTANTS
    Kinds = {"env", "file", "vault", "gen", "ref", "badref"}
    Encodings = {0, 1}
    MaxPlaceholders = 2
    NSlots = 2
INVARIANTS TypeOK ExpandsToMeaning MissingIsReported
