CONSTANTS
    alice = alice
    bob = bob
    hunter = hunter
    staple = staple
    Identities = {alice, bob}
    Passphrases = {hunter, staple}
    NoPassphrase = NoPassphrase
    Nothing = Nothing
    MaxRuns = 3
    MaxFaults = 3
SPECIFICATION FairSpec
CHECK_DEADLOCK FALSE
INVARIANT NoMutualWait
PROPERTY RunEnds
