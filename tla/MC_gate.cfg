\* Reports made, changed under and put together by one agent.
CONSTANTS
  readScope = readScope  writeScope = writeScope  operator = operator  stranger = stranger
  Wildcard = Wildcard
  Token = {readScope, writeScope, Wildcard}
  Resource = {energy}  energy = energy
  Issuer = {operator, stranger}
  Descriptor <- MCDescriptors
  Card <- MCCards
  Handoff <- MCHandoffs
  RawTrace <- MCTraces
  Profile <- MCProfiles
  Foreign <- MCForeign
  Garbage = Garbage  None = None
SPECIFICATION Spec
INVARIANTS TypeOK MixedReportsBlock LegacyNeverOpens WaiversNeverDispatch
  WeakerEvidenceNeverOpens ReadinessOnlyExpires GateIsStricter
