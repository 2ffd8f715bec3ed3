---------------------------- MODULE DriveTorque ----------------------------
(* The torque limit of a vehicle comes from one of the library's two         *)
(* managers: the governed one behind the trust layer's adapter, or the       *)
(* direct one, as the REST example and the Python bindings use it.           *)
EXTENDS TorqueManager, DirectTorqueManager

VARIABLE
    direct       \* whether the vehicle integrates the direct manager

driveVars == <<direct, vars, directVars>>

DriveInit ==
    /\ direct \in BOOLEAN
    /\ Init /\ DirectInit

DriveNext ==
    /\ UNCHANGED direct
    /\ \/ ~direct /\ Next /\ UNCHANGED directVars
       \/ direct /\ DirectNext /\ UNCHANGED vars

DriveSpec == DriveInit /\ [][DriveNext]_driveVars
=============================================================================
