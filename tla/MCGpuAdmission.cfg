SPECIFICATION AdmissionSpec
CONSTANTS
  IdentityInterval = 2
  MaxQueryErrors = 2
  SlowdownSamples = 2
  MaxSamples = 2
  MaxTelemetryAge = 1
  MaxDeclarationAge = 2
  MaxClock = 3
  MaxFactChanges = 1
  Device = {"ctl", "uvm"}
  MaxFdSamples = 2
  Tolerance = 1
  Spot = {0, 1, 3}
  Session = {s1}
  ReceiptDir = {o1, o2}
  Nonce = {n1}
  Executor = {e1, e2}
  Life = 2
  MaxNow = 3
  MaxFileEdits = 1
  MaxCaviarRuns = 2
  MaxInputEdits = 2
INVARIANTS GuardIsSafe ReentryIsSound ImageIsQualified
PROPERTIES GuardStops
CHECK_DEADLOCK FALSE
