SPECIFICATION Spec
CONSTANTS
    Ids = {i1}
    Phones = {p1, p2}
    Requests = {r1, r2, r3}
    LostAnswers = TRUE
    None = None
SYMMETRY Symmetry
INVARIANTS
    TypeOK
    LoadedHasRow
    UnloadedRow
    PhoneSettled
    RemovedIsDown
