CONSTANTS
    alice = alice
    bob = bob
    hunter = hunter
    staple = staple
    Identities = {alice, bob}
    Passphrases = {hunter, staple}
    NoPassphrase = NoPassphrase
    Nothing = Nothing
    MaxRuns = 5
    MaxFaults = 2
SPECIFICATION Spec
INVARIANT TypeOK
INVARIANT PasswordIsCorrect
INVARIANT ConfirmedBeforePassword
INVARIANT LeavesNothingBehind
INVARIANT RightAfterOneFault
INVARIANT Lockstep
PROPERTY ImplementsService
CHECK_DEADLOCK FALSE
