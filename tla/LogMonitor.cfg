SPECIFICATION Spec
CONSTANTS
  Job = {j1}
  j1 = j1
  JobsPerLog = 2
  MaxRetries = 0
  Scenarios <- MCScenarios
CHECK_DEADLOCK FALSE
INVARIANTS
  RecycledWhenOver
  
  OneVerdict
  UserAbortsAsked
PROPERTIES
  EntriesLeave
