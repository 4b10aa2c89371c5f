SPECIFICATION Spec
CONSTANTS
  ann = ann
  bob = bob
  cho = cho
  dan = dan
  f = f
  g = g
  Users = {ann, bob, cho, dan}
  Paths = {f, g}
  FirstGrants = {ann, bob, dan}
  Jobs <- EditTwice
  Workloads <- OneEdit
  FirstFiles = {f}
  FetchMayFail = {}
INVARIANT BaseIsEditedFrom
