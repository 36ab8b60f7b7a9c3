SPECIFICATION System
CONSTANTS
    c1 = c1
    attacker_01 = attacker_01
    engineer_01 = engineer_01
    None = None
    Clients = {c1}
    Users = {attacker_01, engineer_01}
    RoleOf <- MCRoleOf
    Attached = {c1}
    SecurityMode <- MCSecurityMode
    Lines <- MCLines
    UserTTL = 0
    TempTTL = 0
    MaxTime = 1
    MaxCalls = 2
    MaxLogins = 1
    MaxFaults = 1
PROPERTIES
    EmergencyEndedByEntitled
    EstopTakesEffect
    TempSessionEnds
