---- MODULE MazeEntrance ----
(***************************************************************************)
(* What the two mazes in the source have in common, and the search needs:  *)
(* the entrance is in the fourth column of the first row, and there is no  *)
(* other path in that row before it.  main marks this cell as visited,     *)
(* setStartCell finds the first path.                                      *)
(***************************************************************************)
EXTENDS Maze

ASSUME EntranceAssumption ==
    \A m \in Mazes : m[Start] = 1 /\ \A y \in 0..2 : m[<<0, y>>] = 0
====
