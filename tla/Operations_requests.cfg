SPECIFICATION OpSpec
CONSTANTS
    r1 = r1
    r2 = r2
    Requests = {r1, r2}
    Mixes <- MixesMC
    MaxConcurrent = 1
    Cost = 2
    Minute = 3
    Horizon = 3
INVARIANTS
    OpTypeOK
    WindowBound
    SendBound
    AnswersTrue
    SlotsHeld
    NoFirstCodeByRest
