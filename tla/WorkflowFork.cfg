\* Three steps, two replicas, lost sessions and a crash.
\* A workflow that has ended is left alone, so deadlock is not checked.
SPECIFICATION FairSpec
CONSTANTS
  Engines = {e1, e2}
  NoEngine = NoEngine
  Definition <- Fork
  MAX_RETRIES = 1
  MaxPolls = 2
  MaxFaults = 2
  MaxCrashes = 1
INVARIANTS AttemptsBounded OutcomeAgreesWithSteps
PROPERTIES DependenciesFirst EveryWorkflowEnds
CHECK_DEADLOCK FALSE
