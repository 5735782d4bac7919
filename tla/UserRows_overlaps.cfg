SPECIFICATION Spec
CONSTANTS
    Users = {u1}
    Plans = {free}
    Builtin = {free}
    Fields = {"price", "limits"}
    Calls = {c1, c2, c3}
    LostAnswers = TRUE
    None = None
SYMMETRY Symmetry
INVARIANTS
    TypeOK
    References
    TokensSettled
    PlanSettled
    ErrorKeepsPassword
