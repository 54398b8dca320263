SPECIFICATION Spec
CONSTANTS
    p1 = p1
    p2 = p2
    p3 = p3
    c1 = c1
    Participants = {p1, p2, p3}
    Nobody = Nobody
    Coordinators = {c1}
    Wants <- MCWants
    Bids <- MCBids
    Prices = {1, 2}
    MaxAttempts = 2
    MaxTurns = 3
    Authorized = TRUE
    MaxClaims = 2
CHECK_DEADLOCK FALSE
INVARIANTS
    RowsAgree
    DealWithinLimits
    NeverStuck
    ClosedClean
    FirstComeFirstServed
