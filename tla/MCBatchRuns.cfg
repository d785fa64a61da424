SPECIFICATION BatchSpec
CONSTANTS
  Worker = {w1, w2}
  NoWorker = NoWorker
  Plan = {p1, p2}
  NoPlan = NoPlan
  JobCount = 2
  Frames = 2
  MaxKills = 1
  MaxFailures = 1
  Slug <- MCSlug
  Variant = {v1, v2}
  NoVariant = NoVariant
  Videos = 2
  ForkliftVideos = {2}
  MaxRuns = 3
  MaxRunnerKills = 1
  MaxRunnerErrors = 1
INVARIANTS BatchTypeOK SelectionIsSafe PpeRunIsSafe
PROPERTIES BatchStepsHold BatchEnds
CHECK_DEADLOCK FALSE
