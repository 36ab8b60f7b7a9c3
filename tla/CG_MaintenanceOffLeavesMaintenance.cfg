SPECIFICATION Spec
CONSTANTS
    c1 = c1
    c2 = c2
    operator_01 = operator_01
    engineer_01 = engineer_01
    attacker_01 = attacker_01
    None = None
    Clients = {c1, c2}
    Users = {engineer_01, attacker_01}
    RoleOf <- MCRoleOf
    Attached = {c1, c2}
    SecurityMode <- MCSecurityMode
    Lines <- MCLines
    UserTTL = 1
    TempTTL = 0
    MaxTime = 2
    MaxCalls = 2
    MaxLogins = 2
INVARIANT
    MaintenanceOffLeavesMaintenance
