SPECIFICATION FairSpec
CONSTANTS
    Handler = {h1}
    Session = {s1, s2, s3}
    FirstSession = s1
    GatewayId = {g1, g2}
    Blank = Blank
    Null = Null
    GatewayCallbacks <- RouteCallbacks
    StatusAnswers = {"completed", "failed"}
    Operations = {"callback", "cancel", "retry", "refund", "reconcile"}
    MaxAttempts = 2
    Amount = 2
    Origins = {"new", "legacy"}
    Crashes = FALSE
PROPERTIES
    CompletedIsInvoiced
CHECK_DEADLOCK FALSE
