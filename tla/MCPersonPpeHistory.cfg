SPECIFICATION HSpec
CONSTANTS
  Equipment = {"helmet", "hi_vis"}
  Inferred = {"helmet"}
  TrackId = {1}
  TrackTtl = 1
  AlarmEnter = 2
  InferredEnter = 3
  Grace = 4
  AlarmClear = 2
  UnknownAfter = 3
  NewPeople = 1
  StreakCap = 4
INVARIANT DecisionMatchesRun
