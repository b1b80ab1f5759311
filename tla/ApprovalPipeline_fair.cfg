\* A maintenance batch next to a service restart; gates that claim within the
\* grace; one crash or escaping exception anywhere.
SPECIFICATION FairSpec
CONSTANTS
  b1 = b1
  b2 = b2
  p1 = p1
  p2 = p2
  Batches = {b1, b2}
  Packages = {}
  CliBatches = {b2}
  Unlisted = {}
  Agents = {a1}
  ForceAllowed = TRUE
  CronAligned = TRUE
  BriskJobs = FALSE
  SlowStages = {}
  MaxFaults = 1
  NoAgent = NoAgent
  NoBatch = NoBatch
INVARIANT
  AbortedMeansNotStarted
PROPERTIES
  RequestsAreDecided
  ApprovalsAreClaimed
  ApprovedBatchesEnd
