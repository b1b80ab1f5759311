\* A batch of the agent works on the VM while a restart command reaches it.
CONSTANTS
  b1 = b1
  c1 = c1
  Runs = {b1, c1}
  AgentRuns = {b1}
  DirectRuns = {c1}
  NoRun = NoRun
  NoFile = NoFile
  Plans <- MCShortPlans
  Overruns = {}
  StrictAudit = TRUE
  MaxFaults = 0
SPECIFICATION Spec
INVARIANT OneRunPerVm
CHECK_DEADLOCK FALSE
