SPECIFICATION CascadeSpec

CONSTANTS
  n1 = n1
  n2 = n2
  n3 = n3
  n4 = n4
  n5 = n5
  n6 = n6
  n7 = n7
  Cases <- MCCascadeCases
  Waves <- MCWaves

\* A plan, an answer, an exception or the model's turn is the end.
CHECK_DEADLOCK FALSE

INVARIANTS
  TypeOK
  OnlyOwnRecords
  ProfilesStayInside
  DecisionsFitRecords
  CleanupIsExact
  PlanIsBest
  PlanServesAll
