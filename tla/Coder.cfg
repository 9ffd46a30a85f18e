SPECIFICATION Spec
CONSTANTS
  File = {f1, f2}
  Red = {r1}
  MaxAttempts = 3
  Caps <- BudgetChoices
  MaxVisits = 2
  MaxRuns = 2
INVARIANTS
  TypeOK
  HeadIsSound
  IncidentIsNotMet
  UnmetIsRolledBack
  BudgetHolds
CHECK_DEADLOCK FALSE
