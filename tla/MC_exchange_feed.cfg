\* What the program wrote is ingested by its Phase Lab.
CONSTANTS
  o = o  baseline = baseline  grounding = grounding  bridge = bridge
  residual = residual  frontier = frontier
  Output = {o}
  Obligation = {baseline, grounding, bridge}
  ResidualKind = {residual, frontier}
  Coordinate <- MCCoordinates
  StepMissing = {baseline, grounding, bridge}
  StepLedger <- MCStepLedger
  StoredMissing = {baseline, grounding}
  StoredLedger <- MCStoredLedger
  ForeignReport <- MCForeignReports
  ForeignEnvelope <- MCForeignEnvelopes
  MaxFiles = 3
  MaxMerged = 2
  None = None
SPECIFICATION Spec
INVARIANT OpenObligationsAddNothing
