SPECIFICATION FairSpec
CONSTANTS
  q1 = q1
  q2 = q2
  NoLimit = NoLimit
  Requests = {q1, q2}
  Estimate <- Estimates
  Costs = {0, 2}
  Limits = {0, 1, 4}
  MaxFaults = 1
INVARIANTS SpendIsExact SpendWithinLimit
PROPERTY EveryReservationEnds
