---- MODULE Exploration ----
(***************************************************************************)
(* What a search of a maze does, in whatever order: it reaches one path    *)
(* cell after another, each beside one it has reached, until there is none *)
(* left.                                                                   *)
(***************************************************************************)
EXTENDS Maze

VARIABLES maze, reached
vars == <<maze, reached>>

Init == maze \in Mazes /\ reached = {Start}

Reach(c) ==
    /\ c \notin reached /\ maze[c] = 1
    /\ \E b \in reached : Beside(b, c)
    /\ reached' = reached \cup {c}
    /\ UNCHANGED maze

Next == \E c \in Cells : Reach(c)

SafetySpec == Init /\ [][Next]_vars
Spec == SafetySpec /\ WF_vars(Next)
====
