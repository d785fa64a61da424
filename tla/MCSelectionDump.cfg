SPECIFICATION SelectionSpec
CONSTANTS
  Worker = {w1, w2}
  NoWorker = NoWorker
  Plan = {p1, p2}
  NoPlan = NoPlan
  JobCount = 2
  Frames = 2
  MaxKills = 2
  MaxFailures = 1
INVARIANT ReceiptedDumpIsWhole
