SPECIFICATION Spec
CONSTANTS
    Orgs = {o1, o2}
    NoOrg = none
    Views = {"dashboard", "integrations", "organizations", "admin", "transfers"}
    Forms = {"apikey", "organization", "provider", "review"}
    MaxLoads = 2
    MaxSends = 2
    MaxAccepts = 2
CONSTRAINT OrdersOverlap
SYMMETRY OrgSymmetry
INVARIANTS
    LegacyTypeOK
    ScreenFollowsTenant
    AcceptedTwiceOnlyAfterError
PROPERTIES
    OrdersLeaveTheTenantShown
CHECK_DEADLOCK FALSE
