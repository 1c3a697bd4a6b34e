SPECIFICATION Spec
CONSTANTS
  NumSteps = 2
  MaxAttempts <- OneThenTwoAttempts
  ApprovalSteps = {1}
  Decisions = {"approve", "other"}
  Drivers = {d1, d2}
  NoDriver = NoDriver
  Cancellers = {}
  Budget <- BudgetLocked
INVARIANTS RunVerdictMatchesSteps SingleDriver OrderedExecution
PROPERTIES NoRedo ImplementsLifecycle
CHECK_DEADLOCK FALSE
