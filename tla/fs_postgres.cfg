SPECIFICATION Spec
CONSTANTS
  Pushes = {t1, t2, t3}
  Pulls = {r1}
  Paths = {p1}
  MaxBase = 2
  Engine = "postgres"
  NoTx = NoTx
SYMMETRY Symmetry
INVARIANTS VersionsContiguous DeletedFlagCurrent AckedPushStored PullNeverDangles AuditedIsStored
PROPERTIES ImplementsVersionLog HistoryKept
