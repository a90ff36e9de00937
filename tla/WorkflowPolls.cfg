\* The task ends between two polls.
SPECIFICATION Spec
CONSTANTS
  Engines = {e1}
  NoEngine = NoEngine
  Definition <- Chain
  MAX_RETRIES = 0
  MaxPolls = 2
  MaxFaults = 0
  MaxCrashes = 0
PROPERTIES PollsAreFresh
CHECK_DEADLOCK FALSE
