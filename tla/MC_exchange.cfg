\* Own and foreign reports and packets, an identity file that others rewrite.
CONSTANTS
  o = o  baseline = baseline  grounding = grounding  bridge = bridge
  residual = residual  frontier = frontier
  Output = {o}
  Obligation = {baseline, grounding, bridge}
  ResidualKind = {residual, frontier}
  Coordinate <- MCCoordinates
  StepMissing = {baseline, grounding, bridge}
  StepLedger <- MCStepLedger
  StoredMissing = {baseline, grounding}
  StoredLedger <- MCStoredLedger
  ForeignReport <- MCForeignReports
  ForeignEnvelope <- MCForeignEnvelopes
  MaxFiles = 4
  MaxMerged = 3
  None = None
SPECIFICATION Spec
INVARIANTS TypeOK PlanAgreesWithStep NoDebtLost LineageAccountsForMerge
INVARIANTS MergeOrderIrrelevant OpenReportsHeld
