SPECIFICATION Spec
CONSTANTS
    Handler = {h1, h2}
    Session = {s1, s2, s3}
    FirstSession = s1
    GatewayId = {g1}
    Blank = Blank
    Null = Null
    GatewayCallbacks <- MatchingCallbacks
    StatusAnswers = {"completed", "failed"}
    Operations = {"callback", "cancel", "retry", "refund"}
    MaxAttempts = 2
    Amount = 2
    Origins = {"new", "legacy"}
    Crashes = TRUE
SYMMETRY HandlerSymmetry
INVARIANTS
    OneCurrentAttempt
    ParentReflectsAttempt
    CompletedAtMostOnce
    RefundsAccounted
    PaidStaysPaid
CHECK_DEADLOCK FALSE
