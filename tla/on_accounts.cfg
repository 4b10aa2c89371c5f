SPECIFICATION Spec
CONSTANTS
  m1 = m1
  m2 = m2
  Machines = {m1, m2}
  Users = {ann, bob}
  Keys = {k1, k2}
  NoKey = NoKey
  NoUser = NoUser
  Commands <- Everything
  MaxFaults = 1
SYMMETRY Symmetry
INVARIANTS UserHasDevice ConfigIsTrue
PROPERTIES DashboardUsable RevokedOnlyRecovered OneFirstDevice
