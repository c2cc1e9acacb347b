\* Up to three alerts and a hard-excluded one, two permits, a channel of one event,
\* under the fairness of the scheduler, with one crash, failed read or write.  How an
\* alert is judged does not matter to the stream: every judge call fails open.
CONSTANTS
  r1 = r1
  a1 = a1
  a2 = a2
  a3 = a3
  a4 = a4
  h1 = h1
  Run = {r1}
  Alert = {a1, a2, a3, a4}
  Hash = {h1}
  HashOf <- SharedHash
  HardExcluded = {a4}
  HighRisk = {}
  Calibrated = {}
  Twins <- NoTwins
  Judgements = {}
  Modes = {"experiment"}
  Concurrency = 2
  MaxFaults = 1
  Capacity = 1
SPECIFICATION StreamFairSpec
INVARIANT ReportAccountsForInput
INVARIANT StreamTells
INVARIANT ChannelDiscipline
PROPERTY StreamEnds
