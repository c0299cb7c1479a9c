SPECIFICATION Spec
CONSTANTS
    Request = {r1, r2, r3}
    Key = {k1}
    NoKey = NoKey
    Body = {b1, b2}
    Legacy = Legacy
    Null = Null
    MaxAttempts = 2
    AllowRetry = TRUE
    Crashes = TRUE
SYMMETRY PostSymmetry
INVARIANTS
    OnePaymentPerKey
    FormsMatchTheirPost
    ReservationIsServed
PROPERTIES
    ImplementsContract
CHECK_DEADLOCK FALSE
