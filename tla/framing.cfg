CONSTANTS
    PacketSize = 11
    Messages <- MCMessages
    Nothing = Nothing
    MaxQueue = 2
    MaxFaults = 1
SPECIFICATION FairSpec
INVARIANT PaddingIsZero
PROPERTY ImplementsChannel
CHECK_DEADLOCK FALSE
PROPERTY EverySentArrives
