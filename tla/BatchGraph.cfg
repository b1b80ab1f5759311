\* One batch over up to four VMs, planned, replayed or as a dry run.
\* The batch ends: the system really stops.
CONSTANTS
  v1 = v1
  v2 = v2
  v3 = v3
  v4 = v4
  Vms = {v1, v2, v3, v4}
  Fleets <- MCFleets
  Settings <- MCSettings
  Artifacts <- MCArtifacts
  NoArtifact = NoArtifact
  Default <- MCDefault
  Mask = 0
SPECIFICATION FairSpec
INVARIANTS
  TypeOK
  FailedWaveIsLast
  CanaryGoesFirst
  RollingShare
  ApprovedPlanOnly
  AbortMeansUntouched
  CompletedMeansVisited
PROPERTIES
  VisitedOnce
  BatchEnds
CHECK_DEADLOCK FALSE
