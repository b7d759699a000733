---- MODULE CarMotion ----
(***************************************************************************)
(* What the motor controller promises, seen from outside the board: how    *)
(* the two wheels move, and which manoeuvre, if any, is under way.         *)
(*                                                                         *)
(* The car runs ahead.  A manoeuvre is first prepared (the car backs off   *)
(* or halts), then performed (the wheels do what its name says), then the  *)
(* car runs ahead again and only after that is the next one accepted.      *)
(* Motor implements this module: see Motor!Implements.                     *)
(***************************************************************************)
EXTENDS Naturals

VARIABLES
    goal,     \* the manoeuvre under way, "" when there is none
    motion    \* motion[s]: how the wheel on side s turns

vars == <<goal, motion>>

Sides  == {"LEFT", "RIGHT"}
Goals  == {"left", "right", "uturn"}
Wheel  == {"forward", "backward", "still"}

Both(w) == [s \in Sides |-> w]
Ahead   == Both("forward")
Reverse == Both("backward")
Halt    == Both("still")

\* How the wheels turn while manoeuvre g is performed: the inner wheel stands
\* still in a turn, and runs backward in a U-turn.
Performing(g) ==
    CASE g = "left"  -> [Ahead EXCEPT !["LEFT"]  = "still"]
      [] g = "right" -> [Ahead EXCEPT !["RIGHT"] = "still"]
      [] OTHER       -> [Ahead EXCEPT !["RIGHT"] = "backward"]

----------------------------------------------------------------------------

Init == goal = "" /\ motion = Ahead

\* A U-turn is prepared by a halt, a turn by backing off; the command "stop"
\* is a left turn prepared by a halt.
Prepare(g) ==
    /\ goal = ""
    /\ goal' = g
    /\ motion' \in CASE g = "left"  -> {Reverse, Halt}
                     [] g = "right" -> {Reverse}
                     [] OTHER       -> {Halt}

Perform ==
    /\ goal # ""
    /\ motion \in {Reverse, Halt}
    /\ motion' = Performing(goal)
    /\ UNCHANGED goal

Recover ==
    /\ goal # ""
    /\ motion = Performing(goal)
    /\ motion' = Ahead
    /\ UNCHANGED goal

Accept ==
    /\ goal # ""
    /\ motion = Ahead
    /\ goal' = ""
    /\ UNCHANGED motion

Progress == Perform \/ Recover \/ Accept
Next == Progress \/ \E g \in Goals : Prepare(g)

Spec == Init /\ [][Next]_vars /\ WF_vars(Progress)
====
