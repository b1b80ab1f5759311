\* A maintenance batch of two packages next to a service restart of an
\* environment that the agent does not know; one agent;
\* gates slow before and after the poll; one crash or escaping exception anywhere.
SPECIFICATION Spec
CONSTANTS
  b1 = b1
  b2 = b2
  p1 = p1
  p2 = p2
  Batches = {b1, b2}
  Packages = {p1, p2}
  CliBatches = {b2}
  Unlisted = {b2}
  Agents = {a1}
  ForceAllowed = TRUE
  CronAligned = FALSE
  BriskJobs = FALSE
  SlowStages = {"posting", "claiming"}
  MaxFaults = 1
  NoAgent = NoAgent
  NoBatch = NoBatch
SYMMETRY PackageSymmetry
INVARIANTS
  TypeOK
  AtMostOnce
  OneOwner
  StartedOnlyIfApproved
  SelectionSurvives
PROPERTIES
  DecisionsAreFinal
  ImplementsContract
