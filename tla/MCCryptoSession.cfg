SPECIFICATION Spec
CONSTANTS
    aes = aes
    ring1 = ring1
    id1 = id1
    id2 = id2
    one = one
    dflt = dflt
    b1 = b1
    b2 = b2
    x = x
    y = y
    Rings = {ring1}
    KeyIds = {id1, id2}
    KeyBytes = {b1, b2}
    WrongLength = {}
    Algorithms = {aes}
    Aliases = {one, dflt}
    DefaultAlias = dflt
    Plaintexts <- Inner
    Absent = Absent
    NotBase64 = NotBase64
    Garbage = Garbage
    CipherMayFail = FALSE
    Bases <- MCBases
    MaxWraps = 1
    EmptyPrefix = FALSE
    c1 = c1
    c2 = c2
    Clients = {c1, c2}
    Contents = {x, y}
    Setups <- MCSetups
    AddedKeys <- MCAddedKeys
    Fresh <- MCFresh
    address <- MCaddress
    Types <- MCTypes
    Listed = {"user"}
    TypeFields <- MCTypeFields
    UserPaths <- MCUserPaths
    FieldChoices <- MCFieldChoices
    MaxFields = 1
    Managed = {c1}
INVARIANTS TypeOK DecodesExactlyWhileKeysKept HidesExactlyTheListed AddressNeedsOnlyItsKey
PROPERTIES ImplementsDocumentStore 
CHECK_DEADLOCK FALSE
