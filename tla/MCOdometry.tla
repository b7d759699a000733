---- MODULE MCOdometry ----
(***************************************************************************)
(* The instance of Odometry for TLC: its constants are in odometry.cfg.    *)
(***************************************************************************)
EXTENDS Odometry
====
