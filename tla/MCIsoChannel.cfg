\* One caller, every kind of call, a transport of 263 bytes that just carries
\* the extended form of 256 data bytes without Le, two card changes.
SPECIFICATION FairSpec
CONSTANTS
    Callers = {a}
    Calls <- EdgeCalls
    MaxTransmit = 263
    MaxReceive = 8
    Answers <- Replies
    MaxGeneration = 2
INVARIANTS
    TypeOK
    HeardIsBounded
    AnswerIsWhole
    CardReadsTheLengths
PROPERTIES
    ImplementsContract
