CONSTANTS
    Roots = {1, 2}
    Size <- MCSize
    MaxBytes = 5
    Confs <- MCConfs
    MaxThreads = 2
    MaxVersion = 2
    MaxSkills = 2
    MaxRuns = 2
SPECIFICATION Spec
CHECK_DEADLOCK FALSE
INVARIANTS
    TypeOK
    TrustedInPlace
    LaunchConsent
    ResolverAgrees
    ActivationsKept
