SPECIFICATION Spec
CONSTANTS
  References <- MCReferences
  Traffics <- MCTraffics
  Settings <- MCSettings
INVARIANT TypeOK
PROPERTY ReportedIsStable
PROPERTY EventuallyReported
