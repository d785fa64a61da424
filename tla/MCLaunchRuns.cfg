SPECIFICATION MCLaunchSpec
CONSTANTS
  Builder = {p1, p2}
  MaxBuilds = 2
  MaxChanges = 1
  MaxBuildKills = 1
  Planner = {p1, p2}
  NoPlanner = NoPlanner
  MaxPlans = 2
  MaxPlanChanges = 1
  MaxPlanKills = 1
  Runner = {p1, p2}
  NoRunner = NoRunner
  CellCount = 2
  Requested = 1
  MaxRows = 4
  MaxStarts = 4
  MaxEdits = 2
  MaxRunnerKills = 1
  Absent = Absent
  Unread = Unread
  MaxEnduranceRuns = 1
  MaxReports = 3
  MaxRevisions = 1
  MaxDuring = 2
  MaxCardEdits = 2
SYMMETRY Processes
INVARIANTS PublicationIsSafe LaunchIsSafe MatrixIsSafe PageIsHonest
PROPERTIES NothingIsReplaced
CHECK_DEADLOCK FALSE
