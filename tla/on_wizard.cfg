SPECIFICATION FairSpec
CONSTANTS
  m1 = m1
  m2 = m2
  Machines = {m1, m2}
  Users = {ann, bob}
  Keys = {k1, k2}
  NoKey = NoKey
  NoUser = NoUser
  Commands <- Wizards
  MaxFaults = 0
PROPERTIES WizardFinishes
