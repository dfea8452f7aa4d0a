--------------------------- MODULE MCControlPlane ---------------------------
(* Instances 1 to 3 and two ids; instance 0 lies below base_instance. *)
EXTENDS ControlPlane

MCRequests == 1 .. 2

(* Managed and external spawns, instances taken or not to be had, and      *)
(* vehicles that are there or are not.                                     *)
MCCommands ==
  {SpawnCommand(AnyInstance, TRUE), SpawnCommand(1, TRUE), SpawnCommand(2, FALSE),
   SpawnCommand(0, FALSE), DespawnCommand(1), BatteryResetCommand(1),
   PathCheckCommand}
==============================================================================
