SPECIFICATION FairSpec
CONSTANTS
  NumSteps = 2
  MaxAttempts <- OneThenTwoAttempts
  ApprovalSteps = {}
  Decisions = {"approve"}
  Drivers = {d1, d2}
  NoDriver = NoDriver
  Cancellers = {c1, c2}
  Budget <- BudgetCancel
INVARIANTS
  RunVerdictMatchesSteps
PROPERTIES
  RunEnds
  SeenCancelStops
CHECK_DEADLOCK FALSE
