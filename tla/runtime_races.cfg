SPECIFICATION Spec
CONSTANTS
  NumSteps = 2
  MaxAttempts <- OneThenTwoAttempts
  ApprovalSteps = {1}
  Decisions = {"approve"}
  Drivers = {d1, d2}
  NoDriver = NoDriver
  Cancellers = {}
  Budget <- BudgetRaces
SYMMETRY DriverSymmetry
INVARIANTS AttemptsBounded
CHECK_DEADLOCK FALSE
