\* A scheduled batch in the agent and a --run-now batch in a process of its own.
CONSTANTS
  b1 = b1
  b2 = b2
  Runs = {b1, b2}
  AgentRuns = {b1}
  DirectRuns = {}
  NoRun = NoRun
  NoFile = NoFile
  Plans <- MCShortPlans
  Overruns = {}
  StrictAudit = TRUE
  MaxFaults = 0
SPECIFICATION Spec
INVARIANT LockExcludes
CHECK_DEADLOCK FALSE
