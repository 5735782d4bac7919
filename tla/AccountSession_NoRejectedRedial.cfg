SPECIFICATION Spec
CONSTANTS
    Accounts = {a1}
    Phones = {p1, p2}
    Clients = {c1, c2, c3}
    Workers = {w1}
    Retries = 2
    MaxRejects = 1
    None = None
    Budget <- BudgetDrop
PROPERTIES
    NoRejectedRedial
