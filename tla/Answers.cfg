\* Every definition of up to three steps, with up to two dependencies each, and
\* walks and routes over every directory of three agents.  A complete
\* definition has nothing to add, so deadlock is not checked.
SPECIFICATION AnswersSpec
CONSTANTS
  StepIds = {a, b, c}
  MaxSteps = 3
  MaxDeps = 2
  a1 = a1
  a2 = a2
  a3 = a3
  Agents <- MCAgents
  Nobody = Nobody
  Scores = {1}
  Neutral = 2
  CreatedAt <- MCCreatedAt
  Name <- MCName
  Limit = 1
  MaxChanges = 1
SYMMETRY Symmetry
INVARIANTS AcceptsExactlyDags OrderIsTopological DiscoveryTypeOK GapsHaveCause RoutesToTheQualified
CHECK_DEADLOCK FALSE
