SPECIFICATION Spec
CONSTANTS
    aes = aes
    ring1 = ring1
    id = id
    one = one
    dflt = dflt
    b1 = b1
    b2 = b2
    Rings = {ring1}
    KeyIds = {id}
    KeyBytes = {b1, b2}
    WrongLength = {}
    Algorithms = {aes}
    Aliases = {one, dflt}
    DefaultAlias = dflt
    Plaintexts <- MCPlaintexts
    Absent = Absent
    NotBase64 = NotBase64
    Garbage = Garbage
    CipherMayFail = TRUE
    Bases <- MCBases
    MaxWraps = 2
    EmptyPrefix = FALSE
    NodeCount = 3
    MaxEnvelopes = 2
    Documents <- MCDocuments
    Setups <- MCReady
    FieldLists <- MCReservedLists
INVARIANTS RoundTrip
CHECK_DEADLOCK FALSE
