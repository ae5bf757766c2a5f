CONSTANTS
    Users = {u1}
    Requests = {q1, q2}
    Tokens = {t1}
    Instances = {i1, i2}
    Names = {"super_admin", "admin"}
    Keys = {"manage", "view"}
    RolesManage = "manage"
    PermissionsManage = "manage"
    UsersManage = "manage"
    CorePermissions <- MCCorePermissions
    CoreRoles <- MCCoreRoles
    AccessTokenDuration = 2
    MaxRoles = 3
    MaxPermissions = 4
    MaxRequests = 2
    MaxStarts = 1
    MaxFaults = 1
SPECIFICATION LiveSpec
INVARIANTS
    ClaimsFresh
PROPERTIES
    SeedEffective
    EveryInstanceServes
