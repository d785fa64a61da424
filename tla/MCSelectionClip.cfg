SPECIFICATION WebSpec
CONSTANTS
  Job = {j1, j2}
  NoJob = NoJob
  MaxCrashes = 1
  MaxFaults = 1
  AdminThread = {t1, t2}
  MaxBatch = 1
  MaxIssued = 2
  MaxStarts = 1
  MaxAdminCrashes = 1
  Reviewer = {t1, t2}
  Decision = {d1, d2}
  MaxEvents = 2
  MaxIndexes = 2
  MaxReviewFaults = 1
  MaxReads = 3
  QaThread = {t1, t2}
  Identity = {i1, i2}
  Entity = {s1, p1}
  Sample = {s1}
  MaxQaEvents = 3
  MaxClock = 2
  MaxQaReads = 3
  Grid = 1
  Corners = {4}
  TicksInFrame = 2
  VideoTicks = 7
  VideoFrames = 3
  MinArea = 1
  Client = {t1, t2}
  Nobody = Nobody
  Request <- MCClipRequest
  Catalog <- MCCatalog
  TicksPerFrame = 2
  ClipTolerance = 2
  MaxSaves = 1
  MaxStoreFaults = 0
  MaxCatalogs = 0
INVARIANT SavedClipIsNonempty
CHECK_DEADLOCK FALSE
