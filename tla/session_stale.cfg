CONSTANTS
    alice = alice
    bob = bob
    hunter = hunter
    staple = staple
    Identities = {alice, bob}
    Passphrases = {hunter, staple}
    NoPassphrase = NoPassphrase
    Nothing = Nothing
    MaxRuns = 3
    MaxFaults = 2
SPECIFICATION Spec
CHECK_DEADLOCK FALSE
SYMMETRY Symmetric
INVARIANT PrintedWasConfirmed
