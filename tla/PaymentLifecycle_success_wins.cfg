SPECIFICATION Spec
CONSTANTS
    Handler = {h1}
    Session = {s1, s2}
    FirstSession = s1
    GatewayId = {g1}
    Blank = Blank
    Null = Null
    GatewayCallbacks <- MatchingCallbacks
    StatusAnswers = {"completed", "failed"}
    Operations = {"callback", "retry"}
    MaxAttempts = 2
    Amount = 1
    Origins = {"new"}
    Crashes = FALSE
INVARIANT SuccessWins
CHECK_DEADLOCK FALSE
