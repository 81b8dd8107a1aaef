SPECIFICATION Spec
CONSTANTS
    Rings = {r1}
    KeyIds = {id1}
    KeyBytes = {b1}
    WrongLength = {}
    Algorithms = {aes}
    Aliases = {dflt}
    DefaultAlias = dflt
    Plaintexts = {p1}
    Absent = Absent
    NotBase64 = NotBase64
    Garbage = Garbage
    CipherMayFail = FALSE
    MaxIssued = 1
INVARIANTS DecryptReturns
CHECK_DEADLOCK FALSE
