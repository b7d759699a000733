---- MODULE Maze ----
(***************************************************************************)
(* The mazes of the maze search, src/MappingAlgorithm.c: a grid of walls   *)
(* (0) and paths (1), written into the source by hand.                     *)
(***************************************************************************)
EXTENDS Integers

CONSTANTS
    ROW, COL,   \* size of the grid (13 and 9)
    Mazes       \* the mazes considered

Cells == (0..(ROW - 1)) \X (0..(COL - 1))

Start == <<0, 3>>

\* A maze has a path in its first row; the entry of Start exists.
ASSUME MazesAssumption ==
    /\ ROW \in Nat \ {0} /\ COL \in Nat /\ COL > 3
    /\ Mazes \subseteq [Cells -> {0, 1}]
    /\ \A m \in Mazes : \E y \in 0..(COL - 1) : m[<<0, y>>] = 1

Beside(c, d) ==
    \/ c[1] = d[1] /\ (c[2] = d[2] + 1 \/ d[2] = c[2] + 1)
    \/ c[2] = d[2] /\ (c[1] = d[1] + 1 \/ d[1] = c[1] + 1)
====
