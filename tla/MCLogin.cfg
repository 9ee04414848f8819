SPECIFICATION Spec
CONSTANTS
    h1 = h1
    h2 = h2
    Workers = {h1, h2}
    MaxAttempts = 2
    MaxFails = 1
    Window = 1
    Lifetime = 2
    CodesPerSet = 1
    MaxTime = 3
    MaxChallenges = 1
    MaxTries = 3
    MaxSecrets = 2
    MaxEnrolments = 1
SYMMETRY Handlers
INVARIANTS
    TypeOK
    ChallengeUsedOnce
    AttemptsBounded
    EnabledWasVerified
    FailsBounded
