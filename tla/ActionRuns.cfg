\* One run of each kind on a VM in any condition, with one change by others.
CONSTANTS
  p1 = p1
  p2 = p2
  img = img
  old = old
  box = box
  amy = amy
  bob = bob
  key = key
  root = root
  Packages <- MCPackages
  Objects <- MCObjects
  ClassOf <- MCClassOf
  Orphans <- MCOrphans
  Users <- MCUsers
  Texts <- MCTexts
  Mounts <- MCMounts
  MaxUsage = 1
  Growth = 1
  MaxChecks = 1
  MaxDrift = 1
SPECIFICATION FairSpec
INVARIANTS
  TypeOK
  PatchingTellsTheTruth
  OnlyApprovedAreRemoved
  RemovalsAreAccounted
  HousekeepingHoldsBack
  ObservationsAreReported
PROPERTY
  RunsEnd
