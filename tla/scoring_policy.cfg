CONSTANTS
  Null = Null
  MaxGoals = 4
SPECIFICATION Spec
INVARIANTS
  ClosedForm
  SideBlind
