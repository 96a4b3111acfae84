SPECIFICATION Spec
CONSTANTS
    MaxLen = 2
    Numbers = {0, 1, 4, 5, 7, 8, 20}
    Floats = {0, 4, 6, 8, 12}
    Even = {4, 8}
    Overflow = 14
INVARIANTS TypeOK OnlyWhatRan VerdictIsRight StrictIsExact
