SPECIFICATION Spec
CONSTANTS
  ann = ann
  bob = bob
  cho = cho
  dan = dan
  f = f
  g = g
  Users = {ann, bob, cho, dan}
  Paths = {f, g}
  FirstGrants = {ann, bob, dan}
  Jobs <- SameAdminTwice
  Workloads <- OneSameAdmin
  FirstFiles = {f}
  FetchMayFail = {}
INVARIANT LatestKeyHeld
