\* Two processes ingesting into one initialised store, killed anywhere.
CONSTANTS
  w = w  r = r  a = a  b = b
  Proc = {w, r}
  Allowed <- MCWriters
  Payload = {a, b}
  Batches <- MCSmallBatches
  Selectors = {}
  Fresh = FALSE
  Faults = {"crash", "tear"}
  MaxIngests = 3
  MaxFaults = 1
  Base = 10
  PadLimit = 10000
  Garbage = Garbage  Empty = Empty  None = None
SPECIFICATION Spec
INVARIANTS AcknowledgedIntact WindowsContiguous IndexedEventsLogged
SYMMETRY MCSymmetry
