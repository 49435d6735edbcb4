--------------------------- MODULE MCRebootSchedule ---------------------------
(* Instances of RebootSchedule for TLC.                                    *)
EXTENDS RebootSchedule

CONSTANT admin

OneDevice == {1}
TwoDevices == {1, 2}
ManagerOnly == {Manager}
WithAdmin == {Manager, admin}
=============================================================================
