SPECIFICATION Spec
CONSTANTS
  NumSteps = 2
  MaxAttempts <- OneThenTwoAttempts
  ApprovalSteps = {}
  Decisions = {"approve"}
  Drivers = {d1}
  NoDriver = NoDriver
  Cancellers = {c1}
  Budget <- BudgetCancelOnly
INVARIANTS AckedCancelPersists
CHECK_DEADLOCK FALSE
