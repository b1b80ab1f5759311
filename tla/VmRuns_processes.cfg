\* A scheduled batch in the agent and a --run-now batch in a process of its own,
\* which may outlast its lock; the audit store only does its best.
\* Both runs may have ended: the system really stops.
CONSTANTS
  b1 = b1
  b2 = b2
  Runs = {b1, b2}
  AgentRuns = {b1}
  DirectRuns = {}
  NoRun = NoRun
  NoFile = NoFile
  Plans <- MCShortPlans
  Overruns = {b2}
  StrictAudit = FALSE
  MaxFaults = 1
SPECIFICATION FairSpec
PROPERTIES
  RunsEnd
  LocksEnd
CHECK_DEADLOCK FALSE
