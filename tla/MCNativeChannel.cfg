\* One caller, every kind of request, two card changes.
SPECIFICATION Spec
CONSTANTS
    c1 = c1
    c2 = c2
    Callers = {c1}
    Requests <- AllRequests
    MaxTransmit = 8
    MaxReceive = 3
    MaxNativeFrame = 4
    Framing = "iso_wrapped"
    MaxChainFrames = 4
    MaxGeneration = 2
INVARIANTS
    NotSentMeansUnheard
    SuccessIsWhole
    AtMostOneLateFrame
