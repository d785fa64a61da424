SPECIFICATION DriversSpec
CONSTANTS
  PersonId = {1, 2}
  Vehicle = {v1, v2}
  NoVehicle = NoVehicle
  EnterFrames = 2
  ExitFrames = 2
  TtlFrames = 1
  VehicleTtlFrames = 1
  MaxFrameStep = 1
INVARIANT OneOperatorPerVehicle
