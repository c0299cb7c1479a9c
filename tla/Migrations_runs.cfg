SPECIFICATION Spec

CONSTANTS
  r1 = r1
  r2 = r2
  p1 = p1
  p2 = p2
  Runner <- MCRunner
  Payment <- MCPayment
  Database <- MCDatabase
  MaxRestarts = 1

SYMMETRY MCSymmetry

INVARIANT RecordedIsApplied
INVARIANT LimitsNotLoosened
INVARIANT FinishedIsCurrent
PROPERTY FailureHasCause

CHECK_DEADLOCK FALSE
