\* Two runs over one alert, in every interleaving, with one crash, failed
\* read or failed write.
CONSTANTS
  r1 = r1
  r2 = r2
  a1 = a1
  a2 = a2
  a3 = a3
  a4 = a4
  h1 = h1
  h2 = h2
  Run = {r1, r2}
  Alert = {a1}
  Hash = {h1}
  HashOf <- SharedHash
  HardExcluded = {}
  HighRisk = {}
  Calibrated = {a1}
  Twins <- NoTwins
  Judgements <- FewJudgements
  Modes = {"production", "experiment"}
  Concurrency = 1
  MaxFaults = 1
SPECIFICATION Spec
INVARIANT ResumeOnlyConcluded
PROPERTY OverturnedOnlyUnseen
PROPERTY LedgerSpec
SYMMETRY RunSymmetry
