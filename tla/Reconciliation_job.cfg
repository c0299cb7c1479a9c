SPECIFICATION FairJobSpec
CONSTANTS
  N = 2
  Jobs = {j1, j2}
  Handlers = {h1}
  Configs <- MCConfigs
  Odd = {1}
  RetryAttempts = 2
  MaxFaults = 1
INVARIANTS
  SettledAsAnswered
  RepeatedOnlyAfterErrors
  SettledIsInvoiced
PROPERTIES
  DecidedIsSettled
CHECK_DEADLOCK FALSE
