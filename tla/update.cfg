SPECIFICATION Spec
CONSTANTS
  Cli = Cli
  Srv = Srv
  None = None
  Empty = Empty
  Runs = {r1, r2}
  Scenarios <- MCScenarios
  MaxRelease = 3
INVARIANTS OneWriter NeverTorn PutBack CopySurvives
PROPERTIES UpdatedIsNew SwapsAfterExit
