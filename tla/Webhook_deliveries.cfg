SPECIFICATION HookFairSpec
CONSTANTS
    Events = {e1, e2}
    Configs = {wanting, muted}
    Muted = {muted}
    RetryCount = 2
    NoRow = NoRow
INVARIANTS
    GivenUpAfterAll
    HandledOnce
PROPERTIES
    DispatchEnds
