SPECIFICATION Spec
CONSTANTS
    a = a
    b = b
    blob = blob
    None = None
    Atoms = {a, b}
    Unwritable = {blob}
    Keys <- MCKeys
    Documents <- MCDocuments
    Depth <- MCDepth
INVARIANTS TypeOK SeparatorsInPlace  ThrowsOnlyForCause
CHECK_DEADLOCK FALSE
