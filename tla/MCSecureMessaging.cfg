\* Five layers, each at the edges of its arguments and with a lossy reader.
SPECIFICATION SecureSpec
CONSTANTS
    Files <- MCFiles
    Positions <- MCPositions
    Sizes <- MCSizes
    Integers32 <- MCIntegers32
    Rights <- MCRights
    Ids <- MCIds
    AppConfigs <- MCAppConfigs
    FileTruths <- MCFileTruths
    KeyNumbers <- MCKeyNumbers
    KeySets <- MCKeySets
    Blocks <- MCBlocks
    StandardRequests <- MCStandardRequests
    Replies = {0, 13}
    MaxCommands = 3
    MaxSessions = 2
    Ev2Requests <- MCEv2Requests
    MaxCounter = 3
    Keys = {"k1", "k2"}
    CardKey = "k1"
    MaxNonce = 6
    Identifiers <- MCIdentifiers
    Offsets <- MCOffsets
    Records <- MCRecords
    FileIds <- MCFileIds
    IsoSizes <- MCIsoSizes
    RawApdus <- MCRawApdus
    MaxGeneration = 1
    MaxHandshakes = 2
    MaxNumbers = 8
    Unused = Unused
INVARIANTS
    SecureTypeOK
    SecureSessionsAgree
    SecureAnswersAreFresh
    SecureNotSentUnheard
    SecureBytesAgree
CHECK_DEADLOCK FALSE
