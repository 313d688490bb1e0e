SPECIFICATION ScalingSpec
CONSTANTS
  Scalings <- MCScalings
  Metric = {0, 1, 2, 3, 4, 5}
  Adjustments <- MCAdjustments
  MaxFailures = 1
  Undefined = Undefined
INVARIANTS
  AnswerIsTheStep
  RefusalIsTotal
CHECK_DEADLOCK FALSE
