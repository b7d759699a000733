---- MODULE MCObstacle ----
(***************************************************************************)
(* The instance of Obstacle for TLC, with the numbers of the code: an      *)
(* obstacle, something just too far, and nothing that answers in time.     *)
(***************************************************************************)
EXTENDS Obstacle

MCDistances == {10, 14, 460}
====
