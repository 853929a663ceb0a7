\* The same instance, for what candidate-only events may add.
CONSTANTS
  dSeed = dSeed  dLink = dLink  dQuery = dQuery  dRumour = dRumour  dStale = dStale
  Body = {dSeed, dLink, dQuery, dRumour, dStale}
  Report <- MCReports
  Threshold <- MCThresholds
  Readings = {"graph", "closure", "bit", "sqot"}
  MaxEvents = 3
  MaxWindows = 3
  MaxBatch = 2
  None = None
SPECIFICATION Spec
PROPERTY CandidateOnlyAddsNothing
