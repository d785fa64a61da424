SPECIFICATION Spec
CONSTANTS
  Job = {j1, j2}
  NoJob = NoJob
  MaxCrashes = 1
  MaxFaults = 0
INVARIANT SingleConcurrency
