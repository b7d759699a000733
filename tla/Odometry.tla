---- MODULE Odometry ----
(***************************************************************************)
(* Odometry of the integrated firmware: the wheel encoders, the interrupt  *)
(* handler of encoder.c that counts notches and adds up the distance, and  *)
(* the mapping thread, which polls the distance and starts it again at     *)
(* zero whenever the car has reached a new block of the maze.              *)
(*                                                                         *)
(* The interrupt can come between any two accesses of the thread to the    *)
(* distances, which are not protected.  Nothing interrupts the handler.    *)
(*                                                                         *)
(* Distances are in falling edges of 0.9 cm (wheel_circumference / 20).    *)
(* The speed is left out: only pid_speed_left and pid_speed_right use it,  *)
(* and move_straight overwrites what they do.  The thread's first action,  *)
(* a store through a pointer that points nowhere, is taken to do nothing.  *)
(***************************************************************************)
EXTENDS Naturals

CONSTANTS
    BlockEdges,   \* falling edges of both wheels that make 2 * 17.2 cm (39)
    MaxEdges      \* bound: a wheel stands still after so many falling edges

ASSUME BoundsAssumption == BlockEdges \in Nat \ {0} /\ MaxEdges \in Nat \ {0}

Sides == {"LEFT", "RIGHT"}

VARIABLES
    pin,         \* pin[s]: whether the encoder's output is high
    events,      \* events[s]: edges latched by the GPIO and not yet handled
    distance,    \* distance[s]
    tPc,         \* where the mapping thread is
    left_dist, right_dist,   \* locals of isNewBlock
    pinAtStart,  \* history: pin[s] when the interrupts were enabled
    edges,       \* history: edges[s] falling edges of wheel s
    rises,       \* history: rises[s] increments of notch_count[s]
    falls,       \* history: falls[s] increments of distance[s]
    blocks       \* history: new blocks reported

wheelVars  == <<pin, pinAtStart, edges>>
threadVars == <<tPc, left_dist, right_dist, blocks>>
countVars  == <<rises, falls>>
vars == <<wheelVars, events, distance, countVars, threadVars>>

zero == [s \in Sides |-> 0]

\* encoder_main enables the interrupts wherever the discs stand: the outputs may
\* be high, and then the first edge is a falling one.
Init ==
    /\ pin \in [Sides -> BOOLEAN]
    /\ pinAtStart = pin
    /\ events = [s \in Sides |-> {}]
    /\ distance = zero
    /\ tPc = "delay"
    /\ left_dist = 0 /\ right_dist = 0
    /\ edges = zero /\ rises = zero /\ falls = zero
    /\ blocks = 0

----------------------------------------------------------------------------
\* A wheel turns.  An edge of a kind that is latched already adds nothing.

Rise(s) ==
    /\ ~pin[s]
    /\ edges[s] < MaxEdges
    /\ pin' = [pin EXCEPT ![s] = TRUE]
    /\ events' = [events EXCEPT ![s] = @ \cup {"rise"}]
    /\ UNCHANGED <<pinAtStart, edges, distance, countVars, threadVars>>

Fall(s) ==
    /\ pin[s]
    /\ pin' = [pin EXCEPT ![s] = FALSE]
    /\ events' = [events EXCEPT ![s] = @ \cup {"fall"}]
    /\ edges' = [edges EXCEPT ![s] = @ + 1]
    /\ UNCHANGED <<pinAtStart, distance, countVars, threadVars>>

\* Mutant of encoder_callback: the falling edge is looked at first.
fall_first(s) ==
    /\ events[s] # {}
    /\ events' = [events EXCEPT ![s] = {}]
    /\ IF "fall" \in events[s]
       THEN /\ falls' = [falls EXCEPT ![s] = @ + 1]
            /\ distance' = [distance EXCEPT ![s] = @ + 1]
            /\ UNCHANGED rises
       ELSE rises' = [rises EXCEPT ![s] = @ + 1] /\ UNCHANGED <<falls, distance>>
    /\ UNCHANGED <<wheelVars, threadVars>>

\* The interrupt: all latched edges of a pin at once.  When both kinds are
\* there only the rising one is counted.
encoder_callback(s) ==
    /\ events[s] # {}
    /\ events' = [events EXCEPT ![s] = {}]
    /\ IF "rise" \in events[s]
       THEN rises' = [rises EXCEPT ![s] = @ + 1] /\ UNCHANGED <<falls, distance>>
       ELSE /\ falls' = [falls EXCEPT ![s] = @ + 1]
            /\ distance' = [distance EXCEPT ![s] = @ + 1]
            /\ UNCHANGED rises
    /\ UNCHANGED <<wheelVars, threadVars>>

----------------------------------------------------------------------------
\* The mapping thread: isNewBlock after every delay of 100 ticks.

GetLeft ==
    /\ tPc = "delay"
    /\ left_dist' = distance["LEFT"]
    /\ tPc' = "right"
    /\ UNCHANGED <<wheelVars, events, distance, countVars, right_dist, blocks>>

\* Mutant of GetRight: the second reading is of the left wheel too.
GetLeftTwice ==
    /\ tPc = "right"
    /\ right_dist' = distance["LEFT"]
    /\ tPc' = "test"
    /\ UNCHANGED <<wheelVars, events, distance, countVars, left_dist, blocks>>

GetRight ==
    /\ tPc = "right"
    /\ right_dist' = distance["RIGHT"]
    /\ tPc' = "test"
    /\ UNCHANGED <<wheelVars, events, distance, countVars, left_dist, blocks>>

\* (left_dist + right_dist) / 2 >= 17.2f, and the first store of
\* reset_distance(-1) ...
reached == left_dist + right_dist >= BlockEdges

NotYet ==
    /\ tPc = "test" /\ ~reached
    /\ tPc' = "delay"
    /\ UNCHANGED <<wheelVars, events, distance, countVars, left_dist, right_dist, blocks>>

ResetLeft ==
    /\ tPc = "test" /\ reached
    /\ distance' = [distance EXCEPT !["LEFT"] = 0]
    /\ tPc' = "reset"
    /\ UNCHANGED <<wheelVars, events, countVars, left_dist, right_dist, blocks>>

\* Mutant of ResetRight: reset_distance(-1) misses the right wheel.
ResetLeftOnly ==
    /\ tPc = "reset"
    /\ blocks' = blocks + 1
    /\ tPc' = "delay"
    /\ UNCHANGED <<wheelVars, events, distance, countVars, left_dist, right_dist>>

\* ... and the second; isNewBlock returns true.
ResetRight ==
    /\ tPc = "reset"
    /\ distance' = [distance EXCEPT !["RIGHT"] = 0]
    /\ blocks' = blocks + 1
    /\ tPc' = "delay"
    /\ UNCHANGED <<wheelVars, events, countVars, left_dist, right_dist>>

MappingThread == GetLeft \/ GetRight \/ NotYet \/ ResetLeft \/ ResetRight

Next ==
    \/ MappingThread
    \/ \E s \in Sides : Rise(s) \/ Fall(s) \/ encoder_callback(s)

\* The thread has priority 8 and shares the processor with the motor task,
\* busy-waits included, by time slices.
SafetySpec == Init /\ [][Next]_vars
Spec == SafetySpec /\ WF_vars(MappingThread)

----------------------------------------------------------------------------
\* Properties

TypeOK ==
    /\ pin \in [Sides -> BOOLEAN]
    /\ pinAtStart \in [Sides -> BOOLEAN]
    /\ events \in [Sides -> SUBSET {"rise", "fall"}]
    /\ tPc \in {"delay", "right", "test", "reset"}
    /\ distance \in [Sides -> 0..MaxEdges]
    /\ edges \in [Sides -> 0..MaxEdges]
    /\ rises \in [Sides -> 0..MaxEdges]
    /\ falls \in [Sides -> 0..MaxEdges]
    /\ left_dist \in 0..MaxEdges /\ right_dist \in 0..MaxEdges
    /\ blocks \in Nat

\* No block is reported that was not driven: however the interrupt falls
\* between the two readings and the two resets, and although the latter are
\* not one step, no edge counts for two blocks.
BlocksAreDriven == blocks * BlockEdges <= falls["LEFT"] + falls["RIGHT"]

\* The distance is never ahead of the notches: whatever edges are merged or
\* lost while the interrupt is late, a falling edge that is counted follows a
\* rising edge of its own that was counted.  The exception is the first falling
\* edge of a wheel whose output was high from the start: there the distance is
\* ahead by that one for good.
unseenRise(s) == IF pinAtStart[s] THEN 1 ELSE 0
DistanceNotAheadOfNotches ==
    \A s \in Sides : falls[s] <= rises[s] + unseenRise(s) /\ falls[s] <= edges[s]

\* The invariant behind these two, inductive together with TypeOK.  The edges
\* that are latched are ones that the counters have not seen: ...
EdgeInv(s) ==
    LET rose == rises[s] + unseenRise(s)
        driven == edges[s] + (IF pin[s] THEN 1 ELSE 0)
    IN /\ distance[s] <= falls[s]
       /\ falls[s] <= rose /\ falls[s] <= edges[s]
       /\ "fall" \in events[s] => falls[s] < edges[s]
       /\ "rise" \notin events[s] /\ (pin[s] \/ "fall" \in events[s]) => falls[s] < rose
       /\ pin[s] /\ "fall" \in events[s] => "rise" \in events[s]
       /\ pin[s] => edges[s] < MaxEdges
       /\ rose <= driven
       /\ "rise" \in events[s] => rose < driven

\* ... what the thread has read is still there, and what it has not reported
\* is on top of the blocks it has.
ThreadInv ==
    /\ tPc \in {"right", "test"} => left_dist <= distance["LEFT"]
    /\ tPc = "test" => right_dist <= distance["RIGHT"]
    /\ IF tPc = "reset"
       THEN blocks * BlockEdges + BlockEdges + distance["LEFT"]
                <= falls["LEFT"] + falls["RIGHT"]
       ELSE blocks * BlockEdges + distance["LEFT"] + distance["RIGHT"]
                <= falls["LEFT"] + falls["RIGHT"]

OdometryInv == TypeOK /\ (\A s \in Sides : EdgeInv(s)) /\ ThreadInv

\* A block that has been driven is reported, although the thread reads the
\* two distances at different times.
BlockIsReported ==
    \A n \in 0..(2 * MaxEdges) :
        (blocks = n /\ distance["LEFT"] + distance["RIGHT"] >= BlockEdges) ~> (blocks > n)
====
