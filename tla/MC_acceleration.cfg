\* One agent that writes the three files as it likes and asks for reports.
CONSTANTS
  cx = cx  cy = cy  transport = transport  hazard = hazard
  Coordinate = {cx, cy}
  Charge = {transport, hazard}
  Packet <- MCPackets
  Target <- MCTargets
  Baseline <- MCBaselines
  MaxLines = 3
  Garbage = Garbage  None = None
SPECIFICATION Spec
INVARIANTS TypeOK RecordingChangesNothing ProxyAddsNothing AheadEverywhere
  WeakerEvidenceNeverCertifies
