SPECIFICATION Spec
CONSTANTS
    h1 = h1
    h2 = h2
    Workers = {h1, h2}
    MaxAttempts = 2
    MaxFails = 1
    Window = 1
    Lifetime = 1
    CodesPerSet = 1
    MaxTime = 0
    MaxChallenges = 2
    MaxTries = 3
    MaxSecrets = 1
    MaxEnrolments = 1
SYMMETRY Handlers
INVARIANT RecoveryCodeUsedOnce
