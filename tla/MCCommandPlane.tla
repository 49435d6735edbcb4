--------------------------- MODULE MCCommandPlane ---------------------------
(* Instances of CommandPlane for TLC.                                      *)
EXTENDS CommandPlane

CONSTANT c1

OneCommand == {c1}
=============================================================================
