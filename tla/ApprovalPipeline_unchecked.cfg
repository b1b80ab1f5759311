\* One batch of two packages: the operator approves with every box unchecked.
SPECIFICATION Spec
CONSTANTS
  b1 = b1
  b2 = b2
  p1 = p1
  p2 = p2
  Batches = {b1}
  Packages = {p1, p2}
  CliBatches = {}
  Unlisted = {}
  Agents = {a1}
  ForceAllowed = TRUE
  CronAligned = TRUE
  BriskJobs = FALSE
  SlowStages = {"posting", "waiting", "timingout", "claiming"}
  MaxFaults = 0
  NoAgent = NoAgent
  NoBatch = NoBatch
INVARIANT
  OnlyCheckedPackages
