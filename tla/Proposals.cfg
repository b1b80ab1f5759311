\* Two agents (the second may start when the lease of the first has lapsed), a
\* filer, two proposals for one action, so that one can be rejected and the other
\* come after it, and one disturbance.
CONSTANTS
  Ids = {1, 2}
  Keys = {"cleanup"}
  ActionKeys = {"cleanup"}
  KeyOf <- MCKeyOf
  Threshold = 1
  Agents = {a1, a2}
  Nobody = Nobody
  Vms = {"vm"}
  VmOf <- MCVmOf
  Setups <- MCSetups
  Filers = {probe}
  Free = Free
  Elsewhere = Elsewhere
  MaxTrouble = 1
SPECIFICATION Spec
INVARIANTS
  TypeOK
  ExecutedOnce
  ApprovalsAreNotLost
PROPERTIES
  DecisionsStand
  SuppressionHolds
  ApprovalsAreWorkedOff
