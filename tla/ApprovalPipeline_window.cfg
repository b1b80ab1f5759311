\* Two deferred batches: the second is replayed when the first is through.
SPECIFICATION Spec
CONSTANTS
  b1 = b1
  b2 = b2
  p1 = p1
  p2 = p2
  Batches = {b1, b2}
  Packages = {}
  CliBatches = {}
  Unlisted = {}
  Agents = {a1}
  ForceAllowed = FALSE
  CronAligned = TRUE
  BriskJobs = TRUE
  SlowStages = {}
  MaxFaults = 0
  NoAgent = NoAgent
  NoBatch = NoBatch
PROPERTY
  StartsInsideWindow
