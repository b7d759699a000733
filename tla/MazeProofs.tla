---- MODULE MazeProofs ----
(***************************************************************************)
(* What holds of MazeSearch for mazes of every size, from the invariants   *)
(* SearchInv and DistanceInv, and that the search implements Exploration.  *)
(***************************************************************************)
EXTENDS MazeSearch, MazeEntrance, FiniteSetTheorems, TLAPS

----------------------------------------------------------------------------
\* The grid

LEMMA CellsType == \A c \in Cells : c = <<c[1], c[2]>> /\ c[1] \in Int /\ c[2] \in Int
BY MazesAssumption DEF Cells

LEMMA StartIsCell == Start \in Cells
BY MazesAssumption DEF Cells, Start

LEMMA OppositeType ==
    \A d \in Directions : /\ opposite[d] \in Directions
                          /\ opposite[opposite[d]] = d
BY DEF opposite, Directions

\* Going back from the next cell leads to the cell one came from.
LEMMA StepBack ==
    ASSUME NEW c \in Cells, NEW d \in Directions
    PROVE  step(step(c, d), opposite[d]) = c
<1>1. c = <<c[1], c[2]>> /\ c[1] \in Int /\ c[2] \in Int
  BY CellsType
<1>2. d = 0 \/ d = 1 \/ d = 2 \/ d = 3
  BY DEF Directions
<1> QED BY <1>1, <1>2 DEF step, dx, dy, opposite, Directions

LEMMA AppendAt ==
    ASSUME NEW S, NEW s \in Seq(S), NEW e \in S
    PROVE  /\ Append(s, e) \in Seq(S) /\ Len(Append(s, e)) = Len(s) + 1
           /\ Append(s, e)[Len(s) + 1] = e
           /\ \A n \in 1..Len(s) : Append(s, e)[n] = s[n]
OBVIOUS

\* The four directions lead to the cells beside.
LEMMA StepBeside ==
    ASSUME NEW c \in Cells, NEW e \in Cells
    PROVE  Beside(c, e) <=> \E d \in Directions : e = step(c, d)
<1>1. /\ c = <<c[1], c[2]>> /\ c[1] \in Int /\ c[2] \in Int
      /\ e = <<e[1], e[2]>> /\ e[1] \in Int /\ e[2] \in Int
  BY CellsType
<1>2. /\ step(c, 0) = <<c[1], c[2] - 1>> /\ step(c, 1) = <<c[1], c[2] + 1>>
      /\ step(c, 2) = <<c[1] - 1, c[2]>> /\ step(c, 3) = <<c[1] + 1, c[2]>>
  BY <1>1 DEF step, dx, dy, Directions
<1>3. (\E d \in Directions : e = step(c, d)) <=>
          (e = step(c, 0) \/ e = step(c, 1) \/ e = step(c, 2) \/ e = step(c, 3))
  BY DEF Directions
<1>4. (e[1] = c[1] /\ e[2] = c[2] - 1) <=> e = step(c, 0)
  BY <1>1, <1>2
<1>5. (e[1] = c[1] /\ e[2] = c[2] + 1) <=> e = step(c, 1)
  BY <1>1, <1>2
<1>6. (e[1] = c[1] - 1 /\ e[2] = c[2]) <=> e = step(c, 2)
  BY <1>1, <1>2
<1>7. (e[1] = c[1] + 1 /\ e[2] = c[2]) <=> e = step(c, 3)
  BY <1>1, <1>2
<1> QED BY <1>1, <1>3, <1>4, <1>5, <1>6, <1>7 DEF Beside

\* setStartCell finds the cell whose entry main marks as visited.
LEMMA StartCell ==
    ASSUME NEW m \in Mazes
    PROVE  setStartCell(m) = Start
<1> DEFINE First(y) == m[<<0, y>>] = 1 /\ \A z \in 0..(y - 1) : m[<<0, z>>] # 1
<1>1. 3 \in 0..(COL - 1) /\ First(3)
  BY MazesAssumption, EntranceAssumption DEF Start
<1>2. ASSUME NEW y \in 0..(COL - 1), First(y) PROVE y = 3
  <2>1. ~ y < 3
    BY <1>2, MazesAssumption, EntranceAssumption
  <2>2. ~ y > 3
    BY <1>1, <1>2, MazesAssumption, EntranceAssumption
  <2> QED BY <2>1, <2>2, MazesAssumption, EntranceAssumption
<1>3. (CHOOSE y \in 0..(COL - 1) : First(y)) = 3
  BY <1>1, <1>2
<1> QED BY <1>3 DEF setStartCell, Start

----------------------------------------------------------------------------
\* The invariant

LEMMA InitInv == Init => SearchInv
<1> SUFFICES ASSUME Init PROVE SearchInv
    OBVIOUS
<1>1. /\ queue = <<Start>> /\ visitedCells = {Start} /\ robot = Start
      /\ front = 0 /\ i = 4 /\ link = <<noLinks>> /\ mazeOnGround \in Mazes
      /\ current = 1
  BY StartCell DEF Init, Start
<1>2. noLinks \in [Directions -> Nat] /\ \A d \in Directions : noLinks[d] = 0
  BY DEF noLinks
<1>3. TypeOK
  BY <1>1, <1>2, StartIsCell DEF TypeOK, rear
<1>4. rear = 1 /\ \A n \in 1..rear : n = 1 /\ queue[n] = Start /\ link[n] = noLinks
  BY <1>1 DEF rear
<1>5. LinksMutual
  BY <1>2, <1>4 DEF LinksMutual
<1>6. \A c \in visitedCells : mazeOnGround[c] = 1
  BY <1>1, MazesAssumption, EntranceAssumption
<1>7. visitedCells = {queue[n] : n \in 1..rear}
  BY <1>1, <1>4
<1> QED BY <1>1, <1>3, <1>4, <1>5, <1>6, <1>7 DEF SearchInv

LEMMA DequeueInv ==
    ASSUME SearchInv, Dequeue
    PROVE  SearchInv'
<1>1. /\ i = 4 /\ i' = 0 /\ front' = front + 1 /\ front # rear
      /\ robot' = queue[front + 1]
      /\ UNCHANGED <<mazeOnGround, visitedCells, queue, link, rear, current>>
  BY DEF Dequeue, rear
<1>2. /\ queue \in Seq(Cells) /\ rear \in Nat /\ front \in 0..rear
      /\ front + 1 \in 1..rear
  BY <1>1 DEF SearchInv, TypeOK, rear
<1>3. TypeOK'
  BY <1>1, <1>2 DEF SearchInv, TypeOK, rear
<1>4. \A n \in 1..front' : \A d \in Directions :
          (n < front' \/ d < i') => ~toVisit(step(queue[n], d))'
  <2> SUFFICES ASSUME NEW n \in 1..front', NEW d \in Directions, n < front' \/ d < i'
               PROVE  ~toVisit(step(queue[n], d))'
      OBVIOUS
  <2>1. n \in 1..front /\ d < i
    BY <1>1, <1>2 DEF Directions
  <2> QED BY <1>1, <2>1 DEF SearchInv, toVisit
<1>5. LinksMutual'
  BY <1>1 DEF SearchInv, LinksMutual
<1> QED BY <1>1, <1>2, <1>3, <1>4, <1>5 DEF SearchInv

LEMMA SkipInv ==
    ASSUME SearchInv, Skip
    PROVE  SearchInv'
<1>1. /\ i < 4 /\ i' = i + 1 /\ ~toVisit(step(queue[front], i))
      /\ UNCHANGED <<mazeOnGround, visitedCells, queue, front, link, robot, rear, current>>
  BY DEF Skip, rear
<1>2. i \in 0..4 /\ front \in Nat /\ front > 0
  BY <1>1 DEF SearchInv, TypeOK, rear
<1>3. TypeOK'
  BY <1>1, <1>2 DEF SearchInv, TypeOK, rear
<1>4. \A n \in 1..front' : \A d \in Directions :
          (n < front' \/ d < i') => ~toVisit(step(queue[n], d))'
  <2> SUFFICES ASSUME NEW n \in 1..front, NEW d \in Directions, n < front \/ d < i + 1
               PROVE  ~toVisit(step(queue[n], d))
      BY <1>1 DEF toVisit
  <2>1. (n < front \/ d < i) \/ (n = front /\ d = i)
    BY <1>2 DEF Directions
  <2> QED BY <1>1, <2>1 DEF SearchInv
<1>5. LinksMutual'
  BY <1>1 DEF SearchInv, LinksMutual
<1> QED BY <1>1, <1>2, <1>3, <1>4, <1>5 DEF SearchInv

\* The cell that Discover finds, and its links.
found == step(queue[front], i)
newLinks == [noLinks EXCEPT ![opposite[i]] = front]

\* What Discover does to the list, element by element.
LEMMA DiscoverEffect ==
    ASSUME SearchInv, Discover
    PROVE  /\ i < 4 /\ i' = i + 1 /\ visitedCells' = visitedCells \cup {found}
           /\ UNCHANGED <<mazeOnGround, front, robot, current>>
           /\ queue \in Seq(Cells) /\ rear \in Nat /\ front \in 1..rear
           /\ i \in Directions /\ link \in Seq([Directions -> Nat]) /\ Len(link) = rear
           /\ found \in Cells /\ mazeOnGround[found] = 1 /\ found \notin visitedCells
           /\ rear' = rear + 1 /\ queue' \in Seq(Cells)
           /\ queue'[rear + 1] = found /\ \A n \in 1..rear : queue'[n] = queue[n]
           /\ opposite[i] \in Directions
           /\ newLinks \in [Directions -> Nat]
           /\ newLinks[opposite[i]] = front
           /\ \A d \in Directions \ {opposite[i]} : newLinks[d] = 0
           /\ link' \in Seq([Directions -> Nat]) /\ Len(link') = rear'
           /\ link'[rear + 1] = newLinks
           /\ link'[front] = [link[front] EXCEPT ![i] = rear + 1]
           /\ \A n \in 1..rear : n # front => link'[n] = link[n]
           /\ \A n : n \in 1..rear' <=> n \in 1..rear \/ n = rear + 1
           /\ link[front][i] = 0
<1>1. /\ i < 4 /\ i' = i + 1 /\ toVisit(found)
      /\ visitedCells' = visitedCells \cup {found}
      /\ queue' = Append(queue, found)
      /\ link' = Append([link EXCEPT ![front][i] = rear + 1], newLinks)
      /\ UNCHANGED <<mazeOnGround, front, robot, current>>
  BY DEF Discover, found, newLinks
<1>2. /\ queue \in Seq(Cells) /\ rear \in Nat /\ front \in 1..rear
      /\ i \in Directions /\ link \in Seq([Directions -> Nat]) /\ Len(link) = rear
  <2>1. TypeOK /\ front > 0 /\ i < 4
    BY <1>1 DEF SearchInv
  <2> QED BY <2>1 DEF TypeOK, rear, Directions
<1>3. found \in Cells /\ mazeOnGround[found] = 1 /\ found \notin visitedCells
  BY <1>1 DEF toVisit
<1>4. /\ rear' = rear + 1 /\ queue' \in Seq(Cells)
      /\ queue'[rear + 1] = found /\ \A n \in 1..rear : queue'[n] = queue[n]
  BY <1>1, <1>2, <1>3 DEF rear
<1>5. /\ opposite[i] \in Directions
      /\ newLinks \in [Directions -> Nat]
      /\ newLinks[opposite[i]] = front
      /\ \A d \in Directions \ {opposite[i]} : newLinks[d] = 0
  BY <1>2, OppositeType DEF noLinks, newLinks
<1>6. /\ link' \in Seq([Directions -> Nat]) /\ Len(link') = rear'
      /\ link'[rear + 1] = newLinks
      /\ link'[front] = [link[front] EXCEPT ![i] = rear + 1]
      /\ \A n \in 1..rear : n # front => link'[n] = link[n]
  <2> DEFINE one == [link[front] EXCEPT ![i] = rear + 1]
             longer == [link EXCEPT ![front] = one]
  <2>1. one \in [Directions -> Nat]
    BY <1>2
  <2>2. link' = Append(longer, newLinks)
    BY <1>1
  <2> HIDE DEF one
  <2>3. /\ longer \in Seq([Directions -> Nat]) /\ Len(longer) = rear
        /\ longer[front] = one
        /\ \A n \in 1..rear : n # front => longer[n] = link[n]
    BY <1>2, <2>1
  <2> HIDE DEF longer
  <2>4. /\ link' \in Seq([Directions -> Nat]) /\ Len(link') = rear + 1
        /\ link'[rear + 1] = newLinks
        /\ \A n \in 1..rear : link'[n] = longer[n]
    <3>1. newLinks \in [Directions -> Nat]
      BY <1>5
    <3> DEFINE Links == [Directions -> Nat]
    <3> HIDE DEF Links
    <3>2. longer \in Seq(Links) /\ newLinks \in Links
      BY <2>3, <3>1 DEF Links
    <3>3. /\ Append(longer, newLinks) \in Seq(Links)
          /\ Len(Append(longer, newLinks)) = Len(longer) + 1
          /\ Append(longer, newLinks)[Len(longer) + 1] = newLinks
          /\ \A n \in 1..Len(longer) : Append(longer, newLinks)[n] = longer[n]
      BY <3>2, AppendAt
    <3> QED BY <2>2, <2>3, <3>3 DEF Links
  <2> QED BY <1>2, <1>4, <2>3, <2>4 DEF one
<1>7. \A n : n \in 1..rear' <=> n \in 1..rear \/ n = rear + 1
  <2>1. rear' = rear + 1
    BY <1>4
  <2> QED BY <1>2, <2>1
<1>8. link[front][i] = 0
  <2> SUFFICES ASSUME link[front][i] # 0 PROVE FALSE
      OBVIOUS
  <2>1. link[front][i] \in 1..rear /\ queue[link[front][i]] = found
    BY <1>2 DEF SearchInv, LinksMutual, found
  <2> QED BY <1>3, <2>1 DEF SearchInv
<1> QED BY <1>1, <1>2, <1>3, <1>4, <1>5, <1>6, <1>7, <1>8

LEMMA DiscoverInv ==
    ASSUME SearchInv, Discover
    PROVE  SearchInv'
<1>1. /\ i < 4 /\ i' = i + 1 /\ visitedCells' = visitedCells \cup {found}
      /\ UNCHANGED <<mazeOnGround, front, robot, current>>
  BY DiscoverEffect
<1>2. /\ queue \in Seq(Cells) /\ rear \in Nat /\ front \in 1..rear
      /\ i \in Directions /\ link \in Seq([Directions -> Nat]) /\ Len(link) = rear
  BY DiscoverEffect
<1>3. found \in Cells /\ mazeOnGround[found] = 1 /\ found \notin visitedCells
  BY DiscoverEffect
<1>4. /\ rear' = rear + 1 /\ queue' \in Seq(Cells)
      /\ queue'[rear + 1] = found /\ \A n \in 1..rear : queue'[n] = queue[n]
  BY DiscoverEffect
<1>5. /\ opposite[i] \in Directions
      /\ newLinks \in [Directions -> Nat]
      /\ newLinks[opposite[i]] = front
      /\ \A d \in Directions \ {opposite[i]} : newLinks[d] = 0
  BY DiscoverEffect
<1>6. /\ link' \in Seq([Directions -> Nat]) /\ Len(link') = rear'
      /\ link'[rear + 1] = newLinks
      /\ link'[front] = [link[front] EXCEPT ![i] = rear + 1]
      /\ \A n \in 1..rear : n # front => link'[n] = link[n]
  BY DiscoverEffect
<1>a. \A n : n \in 1..rear' <=> n \in 1..rear \/ n = rear + 1
  BY DiscoverEffect
<1>7. TypeOK'
  <2>1. front' \in 0..rear'
    <3>1. front' = front /\ rear' = rear + 1
      BY <1>1, <1>4
    <3>2. front \in 1..rear /\ rear \in Nat
      BY <1>2
    <3> QED BY <3>1, <3>2
  <2>2. i' \in 0..4
    <3>1. i' = i + 1 /\ i \in 0..3
      BY <1>1, <1>2 DEF Directions
    <3> QED BY <3>1
  <2>3. /\ mazeOnGround' \in Mazes /\ robot' \in Cells
        /\ visitedCells' \subseteq Cells
    BY <1>1, <1>3 DEF SearchInv, TypeOK
  <2>4. current' \in Nat
    BY <1>1 DEF SearchInv, TypeOK
  <2> QED BY <1>4, <1>6, <2>1, <2>2, <2>3, <2>4 DEF TypeOK
<1>8. \A m, n \in 1..rear' : queue'[m] = queue'[n] => m = n
  <2>1. \A n \in 1..rear : queue[n] # found
    BY <1>3 DEF SearchInv
  <2> QED BY <1>4, <1>a, <2>1 DEF SearchInv
<1>9. visitedCells' = {queue'[n] : n \in 1..rear'}
  <2> SUFFICES \A x : x \in visitedCells' <=> \E n \in 1..rear' : x = queue'[n]
      OBVIOUS
  <2>1. \A x : x \in visitedCells <=> \E n \in 1..rear : x = queue[n]
    BY DEF SearchInv
  <2> QED BY <1>1, <1>4, <1>a, <2>1
<1>10. \A b \in visitedCells' : mazeOnGround'[b] = 1
  BY <1>1, <1>3 DEF SearchInv
<1>11. \A n \in 1..front' : \A d \in Directions :
          (n < front' \/ d < i') => ~toVisit(step(queue[n], d))'
  <2> SUFFICES ASSUME NEW n \in 1..front, NEW d \in Directions, n < front \/ d < i + 1
               PROVE  ~toVisit(step(queue[n], d))'
      BY <1>1
  <2>1. queue'[n] = queue[n]
    <3>1. n \in 1..rear
      BY <1>2
    <3> QED BY <1>4, <3>1
  <2>2. (n < front \/ d < i) \/ (n = front /\ d = i)
    BY <1>2 DEF Directions
  <2>3. CASE n < front \/ d < i
    <3>1. ~toVisit(step(queue[n], d))
      BY <2>3 DEF SearchInv
    <3> QED BY <1>1, <2>1, <3>1 DEF toVisit, step
  <2>4. CASE n = front /\ d = i
    BY <1>1, <2>1, <2>4 DEF toVisit, step, found
  <2> QED BY <2>2, <2>3, <2>4
<1>12. LinksMutual'
  <2>1. link[front][i] = 0
    BY DiscoverEffect
  <2> SUFFICES ASSUME NEW n \in 1..rear', NEW d \in Directions, link'[n][d] # 0
               PROVE  /\ link'[n][d] \in 1..rear'
                      /\ link'[link'[n][d]][opposite[d]] = n
                      /\ queue'[link'[n][d]] = step(queue'[n], d)
      BY DEF LinksMutual, step
  <2>2. CASE n = rear + 1
    <3>1. d = opposite[i] /\ link'[n][d] = front
      BY <1>5, <1>6, <2>2
    <3>2. opposite[d] = i /\ link'[front][i] = n
      BY <1>2, <1>6, <2>2, <3>1, OppositeType
    <3>3. step(found, d) = queue[front]
      <4>1. queue[front] \in Cells
        BY <1>2 DEF rear
      <4> QED BY <1>2, <3>1, <4>1, StepBack DEF found
    <3>4. front \in 1..rear' /\ queue'[front] = queue[front] /\ queue'[n] = found
      BY <1>2, <1>4, <1>a, <2>2
    <3> QED BY <3>1, <3>2, <3>3, <3>4
  <2>3. CASE n = front /\ d = i
    <3>1. link'[n][d] = rear + 1
      BY <1>2, <1>6, <2>3
    <3>2. rear + 1 \in 1..rear'
      BY <1>a
    <3>3. link'[rear + 1][opposite[d]] = n
      BY <1>5, <1>6, <2>3
    <3>4. queue'[rear + 1] = step(queue'[n], d)
      BY <1>2, <1>4, <2>3 DEF found
    <3> QED BY <3>1, <3>2, <3>3, <3>4
  <2>4. CASE n \in 1..rear /\ ~(n = front /\ d = i)
    <3>1. link'[n][d] = link[n][d]
      <4>1. CASE n = front
        BY <1>2, <1>6, <2>4, <4>1
      <4>2. CASE n # front
        BY <1>6, <2>4, <4>2
      <4> QED BY <4>1, <4>2
    <3> DEFINE t == link[n][d]
    <3>2. t \in 1..rear /\ link[t][opposite[d]] = n /\ queue[t] = step(queue[n], d)
      BY <2>4, <3>1 DEF SearchInv, LinksMutual
    <3>3. link'[t][opposite[d]] = n
      <4>1. ~(t = front /\ opposite[d] = i)
        BY <1>2, <2>1, <2>4, <3>2
      <4>2. opposite[d] \in Directions
        BY OppositeType
      <4> HIDE DEF t
      <4>3. CASE t = front
        <5>1. link[front] \in [Directions -> Nat]
          BY <1>2
        <5>2. link'[front][opposite[d]] = link[front][opposite[d]]
          BY <1>6, <4>1, <4>2, <4>3, <5>1
        <5> QED BY <3>2, <4>3, <5>2
      <4>4. CASE t # front
        BY <1>6, <3>2, <4>4
      <4> QED BY <4>3, <4>4
    <3> HIDE DEF t
    <3>4. t \in 1..rear'
      BY <1>a, <3>2
    <3>5. queue'[t] = step(queue'[n], d)
      BY <1>4, <2>4, <3>2 DEF step
    <3> QED BY <3>1, <3>3, <3>4, <3>5 DEF t
  <2> QED BY <1>2, <1>a, <2>2, <2>3, <2>4
<1>13. rear' > 0 /\ front' > 0
  BY <1>1, <1>2, <1>4
<1>14. current' \in 1..rear'
  BY <1>1, <1>a DEF SearchInv
<1> QED BY <1>13, <1>14, <1>7, <1>8, <1>9, <1>10, <1>11, <1>12 DEF SearchInv

LEMMA PrintInv ==
    ASSUME SearchInv, printLinkedList
    PROVE  SearchInv'
<1>1. /\ nextCell(current) # 0 /\ current' = nextCell(current)
      /\ UNCHANGED <<mazeOnGround, visitedCells, queue, front, link, i, robot, rear>>
  BY DEF printLinkedList, rear
<1>2. current' \in 1..rear /\ rear \in Nat
  BY <1>1 DEF SearchInv, LinksMutual, nextCell, Directions, rear, TypeOK
<1>3. TypeOK'
  BY <1>1, <1>2 DEF SearchInv, TypeOK, rear
<1>4. LinksMutual'
  BY <1>1 DEF SearchInv, LinksMutual
<1> QED BY <1>1, <1>2, <1>3, <1>4 DEF SearchInv, toVisit

\* The queue holds the visited cells, each once, all of them paths; what has
\* been looked at has been visited; the links go both ways.
THEOREM SearchInvariant == SafetySpec => []SearchInv
<1>1. SearchInv /\ [Next]_vars => SearchInv'
  <2> SUFFICES ASSUME SearchInv, [Next]_vars PROVE SearchInv'
      OBVIOUS
  <2>1. CASE UNCHANGED vars
    <3>1. /\ UNCHANGED <<mazeOnGround, visitedCells, queue, front, link, i, robot>>
          /\ UNCHANGED <<current, rear>>
      BY <2>1 DEF vars, rear
    <3>2. TypeOK' /\ LinksMutual'
      BY <3>1 DEF SearchInv, TypeOK, LinksMutual
    <3> QED BY <3>1, <3>2 DEF SearchInv, toVisit
  <2> QED BY <2>1, DequeueInv, DiscoverInv, SkipInv, PrintInv DEF Next
<1> QED BY <1>1, InitInv, PTL DEF SafetySpec

----------------------------------------------------------------------------
\* Breadth first.  The ways back are a recursive function of the queue, and what
\* it is cannot be derived from its definition by induction here.  But the search
\* builds the queue cell by cell: so it is an invariant that such a function is
\* there, and that any such function has the properties wanted.

IsWay(f) == f = [n \in 1..rear |-> IF n = 1 THEN 0 ELSE 1 + f[cameFrom(n)]]

\* Ways are longer for later cells; those of all cells in the queue differ by at
\* most one; and what has been looked at from a cell is at most one step further.
WayInv(f) ==
    /\ f \in [1..rear -> Nat]
    /\ \A m, n \in 1..rear : m <= n => f[m] <= f[n]
    /\ front > 0 => f[rear] <= f[front] + 1
    /\ \A n \in 1..front : \A d \in Directions : \A m \in 1..rear :
          (n < front \/ d < i) /\ queue[m] = step(queue[n], d) => f[m] <= f[n] + 1

OneWayBack == \A n \in 2..rear : \E d \in Directions : back(n) = {d}

DistanceInv ==
    /\ front = 0 => rear = 1
    /\ OneWayBack
    /\ \E f : IsWay(f)
    /\ \A f : IsWay(f) => WayInv(f)

LEMMA InitDistance == Init => DistanceInv
<1> SUFFICES ASSUME Init PROVE DistanceInv
    OBVIOUS
<1>1. rear = 1 /\ front = 0
  BY DEF Init, rear
<1>2. \A n : n \in 1..rear <=> n = 1
  BY <1>1
<1>3. OneWayBack
  BY <1>1 DEF OneWayBack
<1>4. IsWay([n \in 1..rear |-> 0])
  BY <1>2 DEF IsWay
<1>5. ASSUME NEW f, IsWay(f) PROVE WayInv(f)
  <2>1. f = [n \in 1..rear |-> 0]
    BY <1>2, <1>5 DEF IsWay
  <2> QED BY <1>1, <1>2, <2>1 DEF WayInv
<1> QED BY <1>1, <1>3, <1>4, <1>5 DEF DistanceInv

\* What the steps that add no cell do to it.
LEMMA SameWays ==
    ASSUME DistanceInv, UNCHANGED <<queue, link, rear>>
    PROVE  /\ OneWayBack' /\ (\E f : IsWay(f))'
           /\ \A f : IsWay(f)' <=> IsWay(f)
<1>1. \A n : back(n)' = back(n) /\ cameFrom(n)' = cameFrom(n)
  BY DEF back, cameFrom
<1>2. \A f : IsWay(f)' <=> IsWay(f)
  BY <1>1 DEF IsWay
<1> QED BY <1>1, <1>2 DEF DistanceInv, OneWayBack

LEMMA DequeueDistance ==
    ASSUME SearchInv, DistanceInv, Dequeue
    PROVE  DistanceInv'
<1>1. /\ i = 4 /\ i' = 0 /\ front' = front + 1 /\ front # rear
      /\ UNCHANGED <<queue, link, rear>>
  BY DEF Dequeue, rear
<1>2. rear \in Nat /\ front \in 0..rear
  BY DEF SearchInv, TypeOK, rear
<1>3. ASSUME NEW f, IsWay(f) PROVE WayInv(f)'
  <2>1. WayInv(f)
    BY <1>3 DEF DistanceInv
  <2>2. front' > 0 => f[rear] <= f[front'] + 1
    <3>1. front + 1 \in 1..rear /\ rear \in 1..rear
      BY <1>1, <1>2
    <3>2. CASE front = 0
      <4>1. f[1] = 0 /\ f[rear] \in Nat
        BY <1>3, <2>1, <3>1 DEF IsWay, WayInv
      <4>2. rear = 1
        BY <3>2 DEF DistanceInv
      <4> QED BY <1>1, <3>2, <4>1, <4>2
    <3>3. CASE front > 0
      <4>1. front \in 1..rear
        BY <1>2, <3>3
      <4>2. f[front] <= f[front + 1] /\ f[rear] <= f[front] + 1
        BY <1>2, <2>1, <3>1, <3>3, <4>1 DEF WayInv
      <4>3. f[front] \in Nat /\ f[front + 1] \in Nat /\ f[rear] \in Nat
        BY <2>1, <3>1, <4>1 DEF WayInv
      <4> QED BY <1>1, <4>2, <4>3
    <3> QED BY <1>2, <3>2, <3>3
  <2>3. ASSUME NEW n \in 1..front', NEW d \in Directions, n < front' \/ d < i'
        PROVE  n \in 1..front /\ (n < front \/ d < i)
    BY <1>1, <1>2, <2>3 DEF Directions
  <2> QED BY <1>1, <2>1, <2>2, <2>3 DEF WayInv, step
<1>4. front' # 0
  BY <1>1, <1>2
<1> QED BY <1>1, <1>3, <1>4, SameWays DEF DistanceInv

\* A direction without a new path: what is there has been queued before.
LEMMA SkipDistance ==
    ASSUME SearchInv, DistanceInv, Skip
    PROVE  DistanceInv'
<1>1. i < 4 /\ i' = i + 1 /\ UNCHANGED <<queue, link, front, rear>>
  BY DEF Skip, rear
<1>2. rear \in Nat /\ front \in 1..rear /\ i \in 0..3
  BY <1>1 DEF SearchInv, TypeOK, rear
<1>3. ASSUME NEW f, IsWay(f) PROVE WayInv(f)'
  <2>1. WayInv(f)
    BY <1>3 DEF DistanceInv
  <2>2. ASSUME NEW n \in 1..front, NEW d \in Directions, NEW m \in 1..rear,
               n < front \/ d < i + 1, queue[m] = step(queue[n], d)
        PROVE  f[m] <= f[n] + 1
    <3>1. CASE n < front \/ d < i
      BY <2>1, <2>2, <3>1 DEF WayInv
    <3>2. CASE n = front
      <4>1. m <= rear /\ rear \in 1..rear
        BY <1>2
      <4>2. f[m] <= f[rear] /\ f[rear] <= f[front] + 1
        BY <1>2, <2>1, <4>1 DEF WayInv
      <4>3. f[m] \in Nat /\ f[rear] \in Nat /\ f[front] \in Nat
        BY <1>2, <2>1, <4>1 DEF WayInv
      <4> QED BY <3>2, <4>2, <4>3
    <3> QED BY <1>2, <2>2, <3>1, <3>2 DEF Directions
  <2> QED BY <1>1, <2>1, <2>2 DEF WayInv, step
<1> QED BY <1>1, <1>3, SameWays DEF DistanceInv

\* A new cell: it is linked to the cell it was found from and no other.
LEMMA DiscoverDistance ==
    ASSUME SearchInv, DistanceInv, Discover
    PROVE  DistanceInv'
<1>0. PICK r, p : r = rear /\ p = front
  OBVIOUS
<1>1. /\ front' = front /\ i' = i + 1 /\ i \in Directions /\ opposite[i] \in Directions
      /\ rear \in Nat /\ front \in 1..rear /\ rear' = rear + 1
      /\ \A n : n \in 1..rear' <=> n \in 1..rear \/ n = rear + 1
  BY DiscoverEffect
<1>2. /\ queue'[rear + 1] = found /\ found \notin visitedCells
      /\ \A n \in 1..rear : queue'[n] = queue[n]
  BY DiscoverEffect
<1>3. \A n \in 1..rear : \A d \in Directions :
          link'[n][d] = IF n = front /\ d = i THEN rear + 1 ELSE link[n][d]
  <2>1. /\ link'[front] = [link[front] EXCEPT ![i] = rear + 1]
        /\ \A n \in 1..rear : n # front => link'[n] = link[n]
        /\ link[front] \in [Directions -> Nat]
    BY DiscoverEffect
  <2> QED BY <2>1
<1>4. \A d \in Directions : link'[rear + 1][d] = IF d = opposite[i] THEN front ELSE 0
  BY DiscoverEffect
<1>5. \A n \in 1..rear : back(n)' = back(n) /\ \A d \in back(n) : link'[n][d] = link[n][d]
  <2>1. link[front][i] = 0
    BY DiscoverEffect
  <2> SUFFICES ASSUME NEW n \in 1..rear, NEW d \in Directions
               PROVE  /\ link'[n][d] \in 1..(n - 1) <=> link[n][d] \in 1..(n - 1)
                      /\ link[n][d] \in 1..(n - 1) => link'[n][d] = link[n][d]
      BY DEF back
  <2>2. CASE n = front /\ d = i
    BY <1>1, <1>3, <2>1, <2>2
  <2>3. CASE ~(n = front /\ d = i)
    BY <1>3, <2>3
  <2> QED BY <2>2, <2>3
<1>6. back(r + 1)' = {opposite[i]}
  BY <1>0, <1>1, <1>4 DEF back
<1>7. OneWayBack'
  <2> SUFFICES ASSUME NEW n \in 2..rear' PROVE \E d \in Directions : back(n)' = {d}
      BY DEF OneWayBack
  <2>1. n \in 2..rear \/ n = rear + 1
    BY <1>1
  <2>2. CASE n \in 2..rear
    BY <1>5, <2>2 DEF DistanceInv, OneWayBack
  <2> QED BY <1>0, <1>1, <1>6, <2>1, <2>2
<1>8. cameFrom(r + 1)' = front
  <2>1. back(r + 1)' = {opposite[i]}
    BY <1>6
  <2>2. (CHOOSE e \in {opposite[i]} : TRUE) = opposite[i]
    OBVIOUS
  <2> QED BY <1>0, <1>1, <1>4, <2>1, <2>2 DEF cameFrom
<1>9. \A n \in 2..rear : cameFrom(n)' = cameFrom(n) /\ cameFrom(n) \in 1..(n - 1)
  <2> SUFFICES ASSUME NEW n \in 2..rear
               PROVE  cameFrom(n)' = cameFrom(n) /\ cameFrom(n) \in 1..(n - 1)
      OBVIOUS
  <2>1. PICK d \in Directions : back(n) = {d}
    BY DEF DistanceInv, OneWayBack
  <2>2. back(n)' = back(n) /\ link'[n][d] = link[n][d]
    BY <1>1, <1>5, <2>1
  <2>3. cameFrom(n)' = link'[n][d] /\ cameFrom(n) = link[n][d]
    BY <2>1, <2>2 DEF cameFrom
  <2> QED BY <2>1, <2>2, <2>3 DEF back
\* The new way back, and the one it is longer than.
<1>10. ASSUME NEW g, IsWay(g), NEW f,
              f = [n \in 1..(r + 1) |-> IF n = r + 1 THEN 1 + g[p] ELSE g[n]]
       PROVE  IsWay(f)'
  <2> SUFFICES ASSUME NEW n \in 1..rear'
               PROVE  f[n] = IF n = 1 THEN 0 ELSE 1 + f[cameFrom(n)']
      BY <1>0, <1>1, <1>10 DEF IsWay
  <2>1. CASE n = rear + 1
    <3>1. f[n] = 1 + g[front] /\ f[front] = g[front] /\ n # 1
      BY <1>0, <1>1, <1>10, <2>1
    <3>2. cameFrom(n)' = front
      BY <1>0, <1>8, <2>1
    <3> QED BY <3>1, <3>2
  <2>2. CASE n = 1
    BY <1>0, <1>1, <1>10, <2>2 DEF IsWay
  <2>3. CASE n \in 2..rear
    <3>1. cameFrom(n)' = cameFrom(n) /\ cameFrom(n) \in 1..rear
      BY <1>1, <1>9, <2>3
    <3>2. g[n] = 1 + g[cameFrom(n)]
      <4>1. n \in 1..rear /\ n # 1
        BY <1>1, <2>3
      <4>2. g[n] = IF n = 1 THEN 0 ELSE 1 + g[cameFrom(n)]
        BY <1>10, <4>1 DEF IsWay
      <4> QED BY <4>1, <4>2
    <3>3. f[n] = g[n] /\ f[cameFrom(n)] = g[cameFrom(n)]
      BY <1>0, <1>1, <1>10, <2>3, <3>1
    <3> QED BY <2>3, <3>1, <3>2, <3>3
  <2> QED BY <1>1, <2>1, <2>2, <2>3
<1>11. ASSUME NEW f, IsWay(f)' PROVE WayInv(f)'
  <2> DEFINE g == [n \in 1..rear |-> f[n]]
  <2>1. \A n \in 1..rear' : f[n] = IF n = 1 THEN 0 ELSE 1 + f[cameFrom(n)']
    BY <1>11 DEF IsWay
  <2>2. IsWay(g)
    <3> SUFFICES ASSUME NEW n \in 1..rear
                 PROVE  g[n] = IF n = 1 THEN 0 ELSE 1 + g[cameFrom(n)]
        BY DEF IsWay
    <3>1. CASE n = 1
      BY <1>1, <2>1, <3>1
    <3>2. CASE n \in 2..rear
      <4>1. cameFrom(n)' = cameFrom(n) /\ cameFrom(n) \in 1..rear
        BY <1>1, <1>9, <3>2
      <4> QED BY <1>1, <2>1, <3>2, <4>1
    <3> QED BY <1>1, <3>1, <3>2
  <2>3. WayInv(g)
    BY <2>2 DEF DistanceInv
  <2>4. \A n \in 1..rear : f[n] = g[n] /\ f[n] \in Nat
    BY <2>3 DEF WayInv
  <2>5. f[rear + 1] = f[front] + 1
    <3>1. f[r + 1] = 1 + f[cameFrom(r + 1)'] /\ f[front] \in Nat
      BY <1>0, <1>1, <2>1, <2>4
    <3> QED BY <1>0, <1>8, <3>1
  <2>6. f = [n \in 1..rear' |-> f[n]]
    BY <1>11 DEF IsWay
  <2> HIDE DEF g
  <2>7. f \in [1..rear' -> Nat]
    <3>1. \A n \in 1..rear' : f[n] \in Nat
      BY <1>1, <2>4, <2>5
    <3> QED BY <2>6, <3>1
  <2>8. \A n \in 1..rear : f[n] <= f[rear + 1]
    <3> SUFFICES ASSUME NEW n \in 1..rear PROVE f[n] <= f[rear + 1]
        OBVIOUS
    <3>1. n <= rear /\ rear \in 1..rear /\ front > 0
      BY <1>1
    <3>2. g[n] <= g[rear] /\ g[rear] <= g[front] + 1
      BY <2>3, <3>1 DEF WayInv
    <3> QED BY <1>1, <2>4, <2>5, <3>1, <3>2
  <2>9. ASSUME NEW m \in 1..rear', NEW n \in 1..rear', m <= n PROVE f[m] <= f[n]
    <3>1. CASE n \in 1..rear
      <4>1. m \in 1..rear
        BY <1>1, <2>9, <3>1
      <4>2. g[m] <= g[n]
        BY <2>3, <2>9, <3>1, <4>1 DEF WayInv
      <4> QED BY <2>4, <3>1, <4>1, <4>2
    <3>2. CASE n = rear + 1 /\ m \in 1..rear
      BY <2>8, <3>2
    <3>3. CASE n = rear + 1 /\ m = rear + 1
      BY <1>1, <2>4, <2>5, <3>3
    <3> QED BY <1>1, <3>1, <3>2, <3>3
  <2>10. ASSUME NEW n \in 1..front, NEW d \in Directions, NEW m \in 1..rear',
                n < front \/ d < i + 1, queue'[m] = step(queue'[n], d)
         PROVE  f[m] <= f[n] + 1
    <3>1. n \in 1..rear /\ queue'[n] = queue[n]
      BY <1>1, <1>2
    <3>2. (n < front \/ d < i) \/ (n = front /\ d = i)
      BY <1>1, <2>10 DEF Directions
    <3>3. CASE m \in 1..rear /\ (n < front \/ d < i)
      <4>1. g[m] <= g[n] + 1
        BY <1>2, <2>3, <2>10, <3>1, <3>3 DEF WayInv
      <4> QED BY <2>4, <3>1, <3>3, <4>1
    <3>4. CASE m \in 1..rear /\ n = front /\ d = i
      <4>1. queue[m] = found /\ queue[m] \in visitedCells
        BY <1>2, <2>10, <3>1, <3>4 DEF found, SearchInv
      <4> QED BY <1>2, <4>1
    <3>5. CASE m = rear + 1 /\ (n < front \/ d < i)
      <4>1. found = step(queue[n], d)
        BY <1>2, <2>10, <3>1, <3>5
      <4>2. ~toVisit(found)
        BY <3>5, <4>1 DEF SearchInv
      <4> QED BY <4>2, DiscoverEffect DEF toVisit
    <3>6. CASE m = rear + 1 /\ n = front
      BY <1>1, <2>4, <2>5, <3>6
    <3> QED BY <1>1, <3>2, <3>3, <3>4, <3>5, <3>6
  <2> QED BY <1>1, <2>4, <2>5, <2>7, <2>9, <2>10 DEF WayInv, step
<1>12. front' # 0
  BY <1>1
<1>13. \E f : IsWay(f)'
  <2>1. PICK g : IsWay(g)
    BY DEF DistanceInv
  <2> QED BY <1>10, <2>1
<1> QED BY <1>7, <1>11, <1>12, <1>13 DEF DistanceInv

\* In any state of the search the ways back are what BreadthFirst says of them
\* once all has been looked at.
LEMMA DistanceInvariant == SafetySpec => []DistanceInv
<1>1. SearchInv /\ DistanceInv /\ [Next]_vars => DistanceInv'
  <2> SUFFICES ASSUME SearchInv, DistanceInv, [Next]_vars PROVE DistanceInv'
      OBVIOUS
  <2>1. CASE UNCHANGED <<queue, link, front, i>>
    <3>1. UNCHANGED <<queue, link, front, i, rear>>
      BY <2>1 DEF rear
    <3>2. \A f : WayInv(f)' <=> WayInv(f)
      BY <3>1 DEF WayInv, step
    <3> QED BY <3>1, <3>2, SameWays DEF DistanceInv
  <2>2. printLinkedList \/ UNCHANGED vars => UNCHANGED <<queue, link, front, i>>
    BY DEF printLinkedList, vars
  <2> QED BY <2>1, <2>2, DequeueDistance, DiscoverDistance, SkipDistance DEF Next
<1> QED BY <1>1, InitDistance, SearchInvariant, PTL DEF SafetySpec

----------------------------------------------------------------------------
\* Theorems

\* performBFS never links a cell to one that is not linked back.
THEOREM TwoWayList == SafetySpec => []LinksMutual
<1>1. SearchInv => LinksMutual
  BY DEF SearchInv
<1> QED BY <1>1, SearchInvariant, PTL

\* The array queue[ROW * COL] of the program is never overrun.
THEOREM QueueSuffices == SafetySpec => []EnqueuedOnce
<1>1. SearchInv => EnqueuedOnce
  <2> SUFFICES ASSUME SearchInv PROVE EnqueuedOnce
      OBVIOUS
  <2>1. queue \in Seq(Cells) /\ rear \in Nat
    BY DEF SearchInv, TypeOK, rear
  <2>2. \A m, n \in 1..rear : queue[m] = queue[n] => m = n
    BY DEF SearchInv
  <2>3. IsFiniteSet(Cells) /\ Cardinality(Cells) = ROW * COL
    <3>1. /\ IsFiniteSet(0..(ROW - 1)) /\ Cardinality(0..(ROW - 1)) = ROW
          /\ IsFiniteSet(0..(COL - 1)) /\ Cardinality(0..(COL - 1)) = COL
      <4>1. ROW \in Nat \ {0} /\ COL \in Nat \ {0}
        BY MazesAssumption
      <4> QED BY <4>1, FS_Interval
    <3> DEFINE xs == 0..(ROW - 1)
               ys == 0..(COL - 1)
    <3> HIDE DEF xs, ys
    <3>2. IsFiniteSet(xs \X ys) /\ Cardinality(xs \X ys) = Cardinality(xs) * Cardinality(ys)
      BY <3>1, FS_Product DEF xs, ys
    <3> QED BY <3>1, <3>2 DEF Cells, xs, ys
  <2>4. IsFiniteSet(1..rear) /\ Cardinality(1..rear) = rear
    BY <2>1, FS_Interval
  <2>5. rear <= ROW * COL
    <3> DEFINE f == [n \in 1..rear |-> queue[n]]
    <3>1. f \in Injection(1..rear, Cells)
      BY <2>1, <2>2 DEF Injection, IsInjective, rear
    <3> QED BY <2>3, <2>4, <3>1, FS_Injection
  <2> QED BY <2>2, <2>5 DEF EnqueuedOnce, VisitedOnce
<1> QED BY <1>1, SearchInvariant, PTL

\* When performBFS ends, no path beside a visited cell has been overlooked.
THEOREM NothingOverlooked == SafetySpec => []DoneIsClosed
<1>1. SearchInv => DoneIsClosed
  <2> SUFFICES ASSUME SearchInv, done, NEW b \in visitedCells, NEW c \in Cells,
                      Beside(b, c), mazeOnGround[c] = 1
               PROVE  c \in visitedCells
      BY DEF DoneIsClosed
  <2>1. PICK n \in 1..rear : b = queue[n]
    BY DEF SearchInv
  <2>2. b \in Cells
    BY DEF SearchInv, TypeOK
  <2>3. PICK d \in Directions : c = step(b, d)
    BY <2>2, StepBeside
  <2>4. n \in 1..front /\ d < i
    BY DEF done, Directions
  <2> QED BY <2>1, <2>3, <2>4 DEF SearchInv, toVisit
<1> QED BY <1>1, SearchInvariant, PTL

\* performBFS finds every cell by a shortest way: every cell but the first has one
\* link back, and the lengths of the ways back over these differ by at most one
\* for cells beside one another, in the order of the queue.
THEOREM ShortestWays == SafetySpec => []BreadthFirst
<1>1. SearchInv /\ DistanceInv => BreadthFirst
  <2> SUFFICES ASSUME SearchInv, DistanceInv, done PROVE BreadthFirst
      BY DEF BreadthFirst
  <2>1. i = 4 /\ front = rear /\ rear \in Nat
    BY DEF done, SearchInv, TypeOK, rear
  <2>2. IsWay(wayBack)
    BY DEF DistanceInv, IsWay, wayBack
  <2>3. WayInv(wayBack)
    BY <2>2 DEF DistanceInv
  <2>4. ASSUME NEW m \in 1..rear, NEW n \in 1..rear, Beside(queue[m], queue[n])
        PROVE  wayBack[m] <= wayBack[n] + 1
    <3>1. queue[m] \in Cells /\ queue[n] \in Cells
      BY DEF SearchInv, TypeOK, rear
    <3>2. Beside(queue[n], queue[m])
      BY <2>4 DEF Beside
    <3>3. PICK d \in Directions : queue[m] = step(queue[n], d)
      BY <3>1, <3>2, StepBeside
    <3>4. n \in 1..front /\ d < i
      BY <2>1 DEF Directions
    <3> QED BY <2>3, <3>3, <3>4 DEF WayInv
  <2>5. ASSUME NEW n \in 2..rear PROVE wayBack[n - 1] <= wayBack[n]
    <3>1. n - 1 \in 1..rear /\ n \in 1..rear /\ n - 1 <= n
      BY <2>1
    <3> QED BY <2>3, <3>1 DEF WayInv
  <2> QED BY <2>4, <2>5 DEF BreadthFirst, DistanceInv, OneWayBack
<1> QED BY <1>1, SearchInvariant, DistanceInvariant, PTL

\* The search is an exploration: every cell it marks is a path beside one that
\* was marked before.
THEOREM ImplementsExploration == SafetySpec => Explores!SafetySpec
<1>1. Init => Explores!Init
  BY DEF Init, Explores!Init, Start, Explores!Start
<1>2. SearchInv /\ [Next]_vars => [Explores!Next]_(Explores!vars)
  <2> SUFFICES ASSUME SearchInv, [Next]_vars PROVE [Explores!Next]_(Explores!vars)
      OBVIOUS
  <2>1. CASE Discover
    <3> DEFINE c == step(queue[front], i)
    <3>1. /\ c \in Cells /\ mazeOnGround[c] = 1 /\ c \notin visitedCells
          /\ visitedCells' = visitedCells \cup {c} /\ UNCHANGED mazeOnGround
          /\ i < 4
      BY <2>1 DEF Discover, toVisit
    <3>2. /\ queue \in Seq(Cells) /\ front \in 1..rear /\ i \in Directions
          /\ queue[front] \in Cells
      BY <3>1 DEF SearchInv, TypeOK, rear, Directions
    <3>3. queue[front] \in visitedCells /\ Beside(queue[front], c)
      BY <3>1, <3>2, StepBeside DEF SearchInv
    <3> HIDE DEF c
    <3>4. Explores!Reach(c)
      BY <3>1, <3>3 DEF Explores!Reach, Explores!Beside, Beside
    <3> QED BY <3>1, <3>4 DEF Explores!Next, Explores!Cells, Cells
  <2>2. CASE ~Discover
    BY <2>2 DEF Next, Dequeue, Skip, printLinkedList, vars, Explores!vars
  <2> QED BY <2>1, <2>2
<1> QED BY <1>1, <1>2, SearchInvariant, PTL DEF SafetySpec, Explores!SafetySpec
====
