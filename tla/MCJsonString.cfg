SPECIFICATION Spec
CONSTANTS
    MaxLength = 4
    Samples = {0, 9, 10, 27, 34, 92, 98, 117, 127, 128, 255}
    Strings <- MCStrings
INVARIANTS TypeOK NothingBare ReadsAsWritten
CHECK_DEADLOCK FALSE
