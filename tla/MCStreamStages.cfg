SPECIFICATION StreamSpec
CONSTANTS
  Source = {1, 2}
  MaxFrame = 2
  MaxPts = 2
  MaxBatch = 2
  AmbiguityMargin = 1
  NativeId = {11}
  FirstSynthetic = 10
  Place = {0, 1, 2}
  Reach = 1
  VehicleTtl = 1
  MaxVehicleFrame = 3
  MaxRaw = 2
  PersonId = {1, 2}
  Vehicle = {v1, v2}
  NoVehicle = NoVehicle
  EnterFrames = 2
  ExitFrames = 2
  TtlFrames = 2
  VehicleTtlFrames = 1
  MaxFrameStep = 1
  Wearer = {p1, p2}
  Kind = {"no_helmet", "no_hi_vis"}
  Person = {p1}
  Anchor = "fence"
  ZoneEnter = 2
  ZoneExit = 3
  WalkEnter = 2
  WalkExit = 2
  ClimbEnter = 3
  ClimbExit = 2
  TrackTtl = 2
  MaxElapsed = 2
INVARIANTS TracksAreSound StageTellsTheState EveryBreachHasItsOwnClimb EndsRestOnSightings
  EffectiveIsRawUnlessDriving
PROPERTIES ZoneEpisodes FenceEpisodes IdentityIsKept DriverTerms EffectiveEpisodes
CHECK_DEADLOCK FALSE
