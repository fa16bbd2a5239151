CONSTANTS
    MaxResponseSize = 4
    IterChunkSize = 2
    ReliablePatterns = 2
    AmbiguousPatterns = 1
    AmbiguousMaxLength = 3
    Similarities = {50, 80, 95}
    Threads = {t1, t2}
    Scenarios <- MCScenarios
    ForcedThreshold = 2
    DuplicateThreshold = 3
    MinContentLength = 1
SYMMETRY ThreadSymmetry
SPECIFICATION PipelineSpec
INVARIANTS
    NativeFilterSound
    MatchesBounded
    SameBodySound
    ProfileMatchesItself
