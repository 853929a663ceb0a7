\* One ingesting process beside one reading process, nobody killed.
CONSTANTS
  w = w  r = r  a = a  b = b
  Proc = {w, r}
  Allowed <- MCWriterAndReader
  Payload = {a, b}
  Batches <- MCBatches
  Selectors = {"latest", "previous", "all"}
  Fresh = TRUE
  Faults = {}
  MaxIngests = 2
  MaxFaults = 0
  Base = 10
  PadLimit = 10000
  Garbage = Garbage  Empty = Empty  None = None
SPECIFICATION FairSpec
INVARIANTS ObservedWindowComplete IndexCoversWindow
PROPERTIES WriterSucceeds ImplementsLedger
