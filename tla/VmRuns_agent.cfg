\* Two VM graphs and a proposal in the one agent process, with one fault.
\* A run may have ended: the system really stops.
CONSTANTS
  b1 = b1
  b2 = b2
  p1 = p1
  Runs = {b1, b2, p1}
  AgentRuns = {b1, b2, p1}
  DirectRuns = {p1}
  NoRun = NoRun
  NoFile = NoFile
  Plans <- MCPlans
  Overruns = {}
  StrictAudit = TRUE
  MaxFaults = 1
SPECIFICATION Spec
SYMMETRY BatchSymmetry
INVARIANTS
  TypeOK
  LocksFollowRuns
  ResultsFollowPlan
  StrictTrailIsComplete
PROPERTY
  LocksAreAtomic
CHECK_DEADLOCK FALSE
