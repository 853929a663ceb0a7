\* One process at a time, killed between and inside its calls.
CONSTANTS
  w = w  r = r  a = a  b = b
  Proc = {w}
  Allowed <- MCAnything
  Payload = {a, b}
  Batches <- MCBatches
  Selectors = {"latest", "previous"}
  Fresh = TRUE
  Faults = {"crash", "tear"}
  MaxIngests = 4
  MaxFaults = 2
  Base = 3
  PadLimit = 3
  Garbage = Garbage  Empty = Empty  None = None
SPECIFICATION Spec
INVARIANTS TypeOK EventIdsUnique RecoversFromCrash ManifestFresh
PROPERTY DamagedStoreFrozen
