---- MODULE MCMazeSearch ----
(***************************************************************************)
(* The instance of MazeSearch for TLC: all mazes of a small grid that are  *)
(* entered where those in the source are.                                  *)
(***************************************************************************)
EXTENDS MazeSearch, MazeEntrance

AllMazes ==
    {m \in [Cells -> {0, 1}] : m[Start] = 1 /\ \A y \in 0..(COL - 1) \ {3} : m[<<0, y>>] = 0}
====
