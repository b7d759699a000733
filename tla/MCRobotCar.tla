---- MODULE MCRobotCar ----
(***************************************************************************)
(* The instance of RobotCar for TLC: its constants are in robotcar.cfg.    *)
(***************************************************************************)
EXTENDS RobotCar
====
