\* Two handlers in every interleaving; a plain, an exempt and a hard-excluded
\* finding; one crash or failed write.
CONSTANTS
  p1 = p1
  p2 = p2
  f1 = f1
  f2 = f2
  f3 = f3
  Handler = {p1, p2}
  Finding = {f1, f2, f3}
  HardExcluded = {f3}
  Exempt = {f2}
  MaxFaults = 1
SPECIFICATION Spec
SYMMETRY HandlerSymmetry
INVARIANTS
  PushedIsDelivered
  CreatedIsRecorded
PROPERTIES
  PushedIsFinal
\* Once pushed, requests are answered from the file and change nothing.
CHECK_DEADLOCK FALSE
