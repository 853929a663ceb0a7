\* One process sends and receives.
CONSTANTS
  w = w  r = r  a = a  b = b  n1 = n1  n0 = n0
  Nonce = {n0, n1}
  SeenBefore = {n0}
  Empty = Empty  Garbage = Garbage  None = None
  Proc = {w}
  Allowed <- MCSender
  Text = {a, b}
  Foreign = {}
  Faults = {}
  MaxWrites = 2
  MaxFaults = 0
SPECIFICATION Spec
INVARIANT NoReplayAccepted
