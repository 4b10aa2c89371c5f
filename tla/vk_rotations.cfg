SPECIFICATION Spec
CONSTANTS
  ann = ann
  bob = bob
  cho = cho
  dan = dan
  f = f
  g = g
  Users = {ann, bob, cho, dan}
  Paths = {f, g}
  FirstGrants = {ann, bob, dan}
  Jobs <- AllJobs
  Workloads <- AllRotations
  FirstFiles = {f, g}
  FetchMayFail <- Failing
INVARIANTS LabelsAgree RotationKeepsContent GrantedHasShare KeyWithheld LostIsOvertaken
PROPERTY UndecryptableIsOvertaken
