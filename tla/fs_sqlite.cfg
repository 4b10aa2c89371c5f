SPECIFICATION FairSpec
CONSTANTS
  Pushes = {t1, t2}
  Pulls = {r1}
  Paths = {p1, p2}
  MaxBase = 1
  Engine = "sqlite"
  NoTx = NoTx
INVARIANT StaleIsConflict
PROPERTY RequestsEnd
