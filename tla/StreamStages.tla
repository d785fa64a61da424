---------------------------- MODULE StreamStages ----------------------------
(***************************************************************************)
(* The stages that a video passes between the detectors and the alarms,    *)
(* for one model check: the native fusion of metadata batches, the raw     *)
(* detector fallback for vehicles, the zone and fence rules of a person,   *)
(* the driver rules, and the effective alarms after them.  The stages hand *)
(* over files, not state: part says which one a behaviour runs.            *)
(***************************************************************************)
EXTENDS FusionEngine, VehicleFallback, PersonZoneHistory, ForkliftDriver, EffectiveAlarms

VARIABLE part

streamVars == <<part, fusionVars, vehicleVars, hvars, driverVars, alarmVars>>

StreamInit ==
  /\ part \in {"fusion", "fallback", "zones", "drivers", "alarms"}
  /\ FusionInit /\ VehicleInit /\ HInit /\ DriversInit /\ AlarmsInit

OnlyFusion == part = "fusion" /\ UNCHANGED <<part, vehicleVars, hvars, driverVars, alarmVars>>
OnlyFallback == part = "fallback" /\ UNCHANGED <<part, fusionVars, hvars, driverVars, alarmVars>>
OnlyZones == part = "zones" /\ UNCHANGED <<part, fusionVars, vehicleVars, driverVars, alarmVars>>
OnlyDrivers == part = "drivers" /\ UNCHANGED <<part, fusionVars, vehicleVars, hvars, alarmVars>>
OnlyAlarms == part = "alarms" /\ UNCHANGED <<part, fusionVars, vehicleVars, hvars, driverVars>>

StreamNext ==
  \/ OnlyFusion /\ FusionNext
  \/ OnlyFallback /\ VehicleNext
  \/ OnlyZones /\ HNext
  \/ OnlyDrivers /\ DriversNext
  \/ OnlyAlarms /\ AlarmsNext

StreamSpec == StreamInit /\ [][StreamNext]_streamVars

-----------------------------------------------------------------------------
\* What one frame says of its tracks: the links of the native fusion, the vehicle ids after
\* the fallback, the states of the zone rules, and the tables of the driver rules, in which
\* a new operator is alone in its vehicle.
TracksAreSound ==
  LinksAreSound /\ VehicleIdsAreDistinct /\ TypeOK /\ DriversTypeOK /\ NewOperatorIsAlone

\* What frames say of each other: fused frames in order, vehicles that keep their ids.
IdentityIsKept == SentInOrder /\ FallbackKeepsIdentity
=============================================================================
