SPECIFICATION Spec
CONSTANTS
    Kinds = {"env", "ref"}
    Encodings = {0}
    MaxPlaceholders = 2
    NSlots = 1
INVARIANTS RefGivesValue
