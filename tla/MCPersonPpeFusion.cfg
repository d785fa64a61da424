SPECIFICATION Spec
CONSTANTS
  Equipment = {"helmet"}
  Inferred = {"helmet"}
  TrackId = {0, 1}
  TrackTtl = 2
  AlarmEnter = 2
  InferredEnter = 1
  Grace = 2
  AlarmClear = 2
  UnknownAfter = 3
  NewPeople = 1
  StreakCap = 3
INVARIANTS TypeOK IdsBelowNext
PROPERTIES AlarmEpisodes PresentOutlivesMisses
