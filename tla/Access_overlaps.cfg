SPECIFICATION Spec
CONSTANTS
    user = user
    custom = custom
    Users = {u1}
    Roles <- BothRoles
    Builtin <- BuiltinRoles
    Default = user
    Keys = {k1}
    Perms = {p1}
    Seed <- SeedPerms
    Admins = {a1, a2}
    Callers = {c1}
    None = None
SYMMETRY Symmetry
INVARIANTS
    TypeOK
    References
    EnabledSettled
    PermissionsSettled
    FreshRights
