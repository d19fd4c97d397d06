CONSTANTS
    Length <- MCLength
    MaxFaults = 3
SPECIFICATION FairSpec
INVARIANT HangsInsideCutMessage
INVARIANT DamageIsBounded
INVARIANT OwnAnswer
PROPERTY Recovers
