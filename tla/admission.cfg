SPECIFICATION Spec
CONSTANTS
  Requests = {r1, r2}
  Inputs = {btc, eth}
  Worlds <- MCWorlds
  MaxChanges = 1
  MaxFaults = 2
INVARIANTS AdmissionSound RefusedLeavesNothing PreviewAgrees
PROPERTY SnapshotByOwner
CHECK_DEADLOCK FALSE
