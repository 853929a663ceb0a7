\* Ingests one after the other, of reports and of files printed before.
CONSTANTS
  dSeed = dSeed  dLink = dLink  dQuery = dQuery  dRumour = dRumour  dStale = dStale
  Body = {dSeed, dLink, dQuery, dRumour, dStale}
  Report <- MCReports
  Threshold <- MCThresholds
  Readings = {"graph", "closure", "bit", "sqot"}
  MaxEvents = 3
  MaxWindows = 3
  MaxBatch = 2
  None = None
SPECIFICATION Spec
INVARIANTS TypeOK OrderIrrelevant NothingCountedIsHeld
PROPERTIES RawVolumeAddsNothing RawVolumeNeverCertifies FeedbackAddsNoEdge
