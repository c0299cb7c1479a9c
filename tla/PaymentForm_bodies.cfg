SPECIFICATION Spec
CONSTANTS
  Bodies <- MCBodies
  Decimals <- MCDecimals
  None = None
  Currency = "132"
  DefaultMaxAmount = 50
  SmallMaxAmount = 40
  Allowances <- MCAllowances
  CurrencyLists <- MCCurrencyLists
  FixedDigits = 5
  MaxThousandths = 1000
  MaxRetries = 2
  MaxRefunds = 3
INVARIANTS
  ChargedIsOrdered
  RetryChargesTheSame
  RefundsAddUp
  SignedIsAsked
  RetryableCanBeBuilt
  AnswersAreRecognised
CHECK_DEADLOCK FALSE
