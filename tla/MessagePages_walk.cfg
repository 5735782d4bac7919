SPECIFICATION Spec
CONSTANTS
    m1 = m1
    m2 = m2
    m3 = m3
    m4 = m4
    Messages = {m1, m2, m3}
    HighIds <- SomeHigh
    Jids = {pn, lid}
    Given = pn
    Moments = {1, 2, 3}
    Limit = 2
    MaxPage = 2
    DefaultPage = 1
    None = None
SYMMETRY Symmetry
INVARIANTS
    PagesDescend
    LostOnlyTies
