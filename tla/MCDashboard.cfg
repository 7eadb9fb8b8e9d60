SPECIFICATION Spec
CONSTANTS
    admin = admin
    user = user
    t1 = t1
    t2 = t2
    Users = {admin, user}
    NoUser = nobody
    Tenants = {t1, t2}
    NoTenant = none
    Memberships <- MCMemberships
    Admins = {admin}
    Pages = {"accounts", "transactions", "platform-organizations", "pricing"}
    Followings <- MCFollowings
    MaxChanges = 1
    MaxLogins = 2
INVARIANTS
    DashboardTypeOK
    LogoutLeavesNothing
    OwnChangesAreShown
PROPERTIES
    RulesComeFromTheirMerchant
CHECK_DEADLOCK FALSE
