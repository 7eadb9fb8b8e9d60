SPECIFICATION Spec
CONSTANTS
    Resets = {r1, r2}
    FirstPassword = first
    Orders = {o1, o2}
    MaxLogins = 2
    MaxClicks = 2
INVARIANTS
    AccessTypeOK
    
    OneWithdrawalPerClick

    
CHECK_DEADLOCK FALSE
