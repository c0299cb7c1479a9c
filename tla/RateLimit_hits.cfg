SPECIFICATION FairSpec
CONSTANTS
    ip = ip
    user = user
    nonce = nonce
    Null = Null
    Request = {r1, r2, r3}
    Scope = {ip, user}
    Url = {nonce}
    Limit <- MCLimit
    Window <- MCWindow
    Expires <- MCExpires
    Routes <- MCRoutes
    Second = 2
    Instants = {1, 3, 4}
INVARIANTS
    HitsCounted
    WithinLimit
    NobodyRefusedEarly
    FreshUrlOnce
PROPERTIES
    EveryRequestAnswered
CHECK_DEADLOCK FALSE
