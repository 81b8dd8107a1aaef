SPECIFICATION Spec
CONSTANTS
    Rings = {r1, r2}
    KeyIds = {id1, id2}
    KeyBytes = {b1, b2, short}
    WrongLength = {short}
    Algorithms = {aes}
    Aliases = {one, dflt}
    DefaultAlias = dflt
    Plaintexts = {p1, p2}
    Absent = Absent
    NotBase64 = NotBase64
    Garbage = Garbage
    CipherMayFail = TRUE
    MaxIssued = 1
SYMMETRY Interchangeable
INVARIANTS TypeOK ReadableWhileKeyHeld 
PROPERTIES LossOnlyByReplacement
CHECK_DEADLOCK FALSE
