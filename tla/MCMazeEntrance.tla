---- MODULE MCMazeEntrance ----
(***************************************************************************)
(* Mazes for TLC with their entrance in any column of the first row.       *)
(***************************************************************************)
EXTENDS MazeSearch

AnyEntrance ==
    {m \in [Cells -> {0, 1}] : \E y \in 0..(COL - 1) : m[<<0, y>>] = 1}
====
