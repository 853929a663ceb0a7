\* Two processes that write, one of which receives; either may be killed.
CONSTANTS
  w = w  r = r  a = a  b = b  n1 = n1  n0 = n0
  Nonce = {n0, n1}
  SeenBefore = {n0}
  Empty = Empty  Garbage = Garbage  None = None
  Proc = {w, r}
  Allowed <- MCShared
  Text = {a}
  Foreign <- MCForeign
  Faults = {"crash"}
  MaxWrites = 3
  MaxFaults = 1
SPECIFICATION Spec
INVARIANTS TypeOK AcknowledgedKept SenderOrderKept
PROPERTY BadMessageBlocksReceive
