CONSTANTS
    Values <- MCValues
    CommandLines <- MCCommandLines
    Devices <- MCDevices
    MaxDevices = 2
    MaxPlugs = 3
SPECIFICATION FairSpec
 
INVARIANT EveryValueCounts
INVARIANT OutputAsAsked
INVARIANT FailurePrintsNoSecret
INVARIANT ReleasedOutsideSession
INVARIANT SessionEndpoints
CHECK_DEADLOCK FALSE
PROPERTY AttachedIsFound
