SPECIFICATION FairSpec
CONSTANTS
    Post = {p1}
    Call = {c1, c2}
    Stranger = Stranger
    Payload <- MCPayload
    Expected <- MCExpected
    Asked = Asked
    Other = Other
    OwnPosId = OwnPosId
    OtherPosId = OtherPosId
    Unparsable = Unparsable
    Absent = Absent
    Null = Null
    Crashes = TRUE
INVARIANTS
    OneVerdictPerPayment
    CompletedWasExpected
    OutcomeIsTheVerdict
PROPERTIES
    GenuineCallbackIsHeard
CHECK_DEADLOCK FALSE
