SPECIFICATION FairSpec
CONSTANTS
    Accounts = {a1}
    Phones = {p1, p2}
    Clients = {c1, c2}
    Workers = {w1}
    Retries = 1
    MaxRejects = 1
    None = None
    Budget <- BudgetPair
PROPERTIES
    MismatchDropped
    RequestCompletes
