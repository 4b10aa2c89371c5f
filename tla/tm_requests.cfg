SPECIFICATION Spec
CONSTANTS
  ann = ann
  bob = bob
  cho = cho
  a1 = a1
  b1 = b1
  b2 = b2
  c1 = c1
  x = x
  v = v
  Users = {ann, bob, cho}
  Devices = {a1, b1, b2, c1}
  PendingDevices = {b2}
  Names = {x}
  VaultNames = {v}
  Requests <- AllRequests
  Workloads <- OnBoth
INVARIANTS MembersInvited AdminsAppointed SpentTokenJoined TokenUsedOnce
