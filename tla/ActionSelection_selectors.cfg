CONSTANTS
  RootActions <- MCRootActions
  Answers = {1, 2, 3}
  Returns = {0, 1}
  M = 3
SPECIFICATION Spec
INVARIANTS
  BudgetKept
  PairedBySeed
  LabelBeatsTheOthers
  OneIsLeft
  RelativeToThePolicy
