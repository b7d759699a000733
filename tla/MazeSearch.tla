---- MODULE MazeSearch ----
(***************************************************************************)
(* The maze search of src/MappingAlgorithm.c, main and performBFS: the     *)
(* cells of the maze are visited breadth first from the entrance, and      *)
(* linked to one another as they are found.  printLinkedList then follows  *)
(* the links.                                                              *)
(*                                                                         *)
(* A step is one turn of the loop over the four directions.  A Cell of the *)
(* program is its index in the queue, which holds all that are made; NULL  *)
(* is 0.  The fields of a Cell are its position, queue[n], and its four    *)
(* links, link[n].  Nothing is printed, and the functions that main does   *)
(* not reach are left out.                                                 *)
(***************************************************************************)
EXTENDS Maze, Sequences

VARIABLES
    mazeOnGround,
    visitedCells,   \* the cells whose entry is true
    queue,          \* positions of the cells queued so far; rear = Len(queue)
    front,          \* how many of them have been taken out
    link,           \* link[n][d]: the cell that cell n is linked to
    i,              \* the direction to look at next; 4: none
    robot,          \* position of the robot, and of its curPos and prevPos
    current         \* the cell that printLinkedList is at

vars == <<mazeOnGround, visitedCells, queue, front, link, i, robot, current>>

Directions == 0..3   \* left, right, up, down

\* dx and dy
dx == [d \in Directions |-> IF d = 2 THEN -1 ELSE IF d = 3 THEN 1 ELSE 0]
dy == [d \in Directions |-> IF d = 0 THEN -1 ELSE IF d = 1 THEN 1 ELSE 0]

\* Mutant of opposite: both cells are linked in the same direction.
same == [d \in Directions |-> d]

opposite == [d \in Directions |->
                IF d = 0 THEN 1 ELSE IF d = 1 THEN 0 ELSE IF d = 2 THEN 3 ELSE 2]

\* (newX, newY)
step(c, d) == <<c[1] + dx[d], c[2] + dy[d]>>

rear == Len(queue)

noLinks == [d \in Directions |-> 0]

\* The first path cell of the first row.
setStartCell(m) ==
    <<0, CHOOSE y \in 0..(COL - 1) :
            m[<<0, y>>] = 1 /\ \A z \in 0..(y - 1) : m[<<0, z>>] # 1>>

Init ==
    /\ mazeOnGround \in Mazes
    /\ visitedCells = {<<0, 3>>}
    /\ queue = <<setStartCell(mazeOnGround)>>
    /\ front = 0
    /\ link = <<noLinks>>
    /\ i = 4
    /\ robot = setStartCell(mazeOnGround)
    /\ current = 1

\* Mutant of Dequeue: the cell found last goes to the head of the queue first.
DequeueLatest ==
    LET old(n) == IF n = front + 1 THEN rear ELSE IF n > front THEN n - 1 ELSE n
        new(n) == IF n = rear THEN front + 1 ELSE IF n > front THEN n + 1 ELSE n
    IN  /\ i = 4 /\ front # rear
        /\ front' = front + 1
        /\ queue' = [n \in 1..rear |-> queue[old(n)]]
        /\ link' = [n \in 1..rear |-> [d \in Directions |-> new(link[old(n)][d])]]
        /\ robot' = queue'[front']
        /\ i' = 0
        /\ UNCHANGED <<mazeOnGround, visitedCells, current>>

Dequeue ==
    /\ i = 4 /\ front # rear
    /\ front' = front + 1
    /\ robot' = queue[front + 1]
    /\ i' = 0
    /\ UNCHANGED <<mazeOnGround, visitedCells, queue, link, current>>

\* Mutant of toVisit: a wall is taken for a path.
toVisit_walls(c) == c \in Cells /\ c \notin visitedCells

toVisit(c) == c \in Cells /\ mazeOnGround[c] = 1 /\ c \notin visitedCells

\* Mutant of Discover: the cell is not marked as visited.
DiscoverUnmarked ==
    LET c == step(queue[front], i)
    IN  /\ i < 4 /\ toVisit(c)
        /\ queue' = Append(queue, c)
        /\ link' = Append([link EXCEPT ![front][i] = rear + 1],
                          [noLinks EXCEPT ![opposite[i]] = front])
        /\ i' = i + 1
        /\ UNCHANGED <<mazeOnGround, visitedCells, front, robot, current>>

\* A cell that has not been visited: mark, link both ways, enqueue.
Discover ==
    LET c == step(queue[front], i)
    IN  /\ i < 4 /\ toVisit(c)
        /\ visitedCells' = visitedCells \cup {c}
        /\ queue' = Append(queue, c)
        /\ link' = Append([link EXCEPT ![front][i] = rear + 1],
                          [noLinks EXCEPT ![opposite[i]] = front])
        /\ i' = i + 1
        /\ UNCHANGED <<mazeOnGround, front, robot, current>>

\* Mutant of Skip: a direction without a path ends the loop.
Break ==
    /\ i < 4 /\ ~toVisit(step(queue[front], i))
    /\ i' = 4
    /\ UNCHANGED <<mazeOnGround, visitedCells, queue, front, link, robot, current>>

Skip ==
    /\ i < 4 /\ ~toVisit(step(queue[front], i))
    /\ i' = i + 1
    /\ UNCHANGED <<mazeOnGround, visitedCells, queue, front, link, robot, current>>

\* "Maze traversed successfully!"
done == i = 4 /\ front = rear

\* Mutant of nextCell: to the left if there is nothing to the right or below.
nextCell_left(n) ==
    IF link[n][1] # 0 THEN link[n][1] ELSE IF link[n][3] # 0 THEN link[n][3] ELSE link[n][0]

\* The cell to print after cell n: to the right, else below, else none.
nextCell(n) == IF link[n][1] # 0 THEN link[n][1] ELSE link[n][3]

\* One turn of the loop that prints the cells.
printLinkedList ==
    /\ done
    /\ nextCell(current) # 0 /\ current' = nextCell(current)
    /\ UNCHANGED <<mazeOnGround, visitedCells, queue, front, link, i, robot>>

Next == Dequeue \/ Discover \/ Skip \/ printLinkedList

SafetySpec == Init /\ [][Next]_vars
Spec == SafetySpec /\ WF_vars(Next)

----------------------------------------------------------------------------
\* Properties

TypeOK ==
    /\ mazeOnGround \in Mazes
    /\ visitedCells \subseteq Cells
    /\ queue \in Seq(Cells)
    /\ front \in 0..rear
    /\ link \in Seq([Directions -> Nat]) /\ Len(link) = rear
    /\ i \in 0..4
    /\ robot \in Cells
    /\ current \in Nat

\* "Check if the new cell is within bounds and not visited": none is queued twice,
\* whatever path of the first row one enters by.
VisitedOnce == \A m, n \in 1..rear : queue[m] = queue[n] => m = n

\* With an entrance like that of the mazes in the source no cell is queued twice,
\* so that the array of ROW * COL entries is enough.
EnqueuedOnce == VisitedOnce /\ rear <= ROW * COL

\* The links form a two-way list: what a cell is linked to is the cell beside
\* it in that direction, and is linked to it in the opposite one.  No link is
\* ever overwritten by one to another cell.
LinksMutual ==
    \A n \in 1..rear : \A d \in Directions :
        link[n][d] # 0 =>
            /\ link[n][d] \in 1..rear
            /\ link[link[n][d]][opposite[d]] = n
            /\ queue[link[n][d]] = step(queue[n], d)

\* When the queue is empty no path cell beside a visited one is left.
DoneIsClosed ==
    done => \A b \in visitedCells, c \in Cells :
                Beside(b, c) /\ mazeOnGround[c] = 1 => c \in visitedCells

\* The invariant behind these.  The cells in the queue are the visited ones,
\* and what has been looked at has been visited if it is a path.
SearchInv ==
    /\ TypeOK
    /\ rear > 0
    /\ i < 4 => front > 0
    /\ \A m, n \in 1..rear : queue[m] = queue[n] => m = n
    /\ visitedCells = {queue[n] : n \in 1..rear}
    /\ \A c \in visitedCells : mazeOnGround[c] = 1
    /\ \A n \in 1..front : \A d \in Directions :
            (n < front \/ d < i) => ~toVisit(step(queue[n], d))
    /\ LinksMutual
    /\ current \in 1..rear

\* The links of cell n to cells found before it, and how many of these it takes
\* to come back to the entrance.
back(n) == {d \in Directions : link[n][d] \in 1..(n - 1)}
cameFrom(n) == link[n][CHOOSE d \in back(n) : TRUE]
wayBack[n \in 1..rear] == IF n = 1 THEN 0 ELSE 1 + wayBack[cameFrom(n)]

\* The way back.  Every cell but the first has one link to an earlier cell;
\* following these one comes to the entrance, by a way as short as any: the
\* lengths of the ways back of cells beside one another differ by at most one.
\* Cells are queued in the order of these lengths.
BreadthFirst ==
    done =>
        /\ \A n \in 2..rear : \E d \in Directions : back(n) = {d}
        /\ \A n \in 2..rear : wayBack[n - 1] <= wayBack[n]
        /\ \A m, n \in 1..rear :
              Beside(queue[m], queue[n]) => wayBack[m] <= wayBack[n] + 1

\* The links go both ways, so that someone who follows them may come back to
\* where they were: printLinkedList does not, and main ends.
PrintingEnds == <>(done /\ nextCell(current) = 0)

\* The search is an exploration of the maze, and does not stop early.
Explores == INSTANCE Exploration WITH maze <- mazeOnGround, reached <- visitedCells
Implements == Explores!Spec
====
