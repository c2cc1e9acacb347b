\* Two activities of any kind, one key, two results of the
\* scanner, two policies, one crash or failed write.
CONSTANTS
  w1 = w1
  w2 = w2
  k1 = k1
  Worker = {w1, w2}
  Key = {k1}
  MaxResults = 2
  MaxPolicies = 2
  MaxFaults = 1
SPECIFICATION Spec
INVARIANT OneScanPerKey
INVARIANT DoneIsWhole
INVARIANT QueuedIsServed
INVARIANT DbAgrees
SYMMETRY WorkerSymmetry
