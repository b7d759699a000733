---- MODULE Motor ----
(***************************************************************************)
(* The motor controller of the integrated firmware: the ReactCommand task  *)
(* of motor.c, the mailbox motor_command it polls, the wheel pins and PWM  *)
(* levels it drives, and the notch counters that the encoder interrupt     *)
(* increments under it.                                                    *)
(*                                                                         *)
(* The task has priority 8 on a single core.  The tasks that write the     *)
(* mailbox have priority 0, so they run only while this one is blocked in  *)
(* vTaskDelay or sleep_ms; the encoder interrupt runs at any time.  One    *)
(* action is the code between two points at which another context can      *)
(* change what the task reads.                                             *)
(***************************************************************************)
EXTENDS Naturals

CONSTANTS
    Writers,      \* the tasks that call set_motor_command
    Sends,        \* Sends[w]: the commands task w can write
    TurnLimit,    \* a turn ends when the outer wheel's count exceeds it (4)
    UTurnLimit,   \* the same for a U-turn (27)
    MaxNotch,     \* bound: a notch counter stops here
    MaxWrites     \* bound: set_motor_command is called this often

\* react_to_commands compares the mailbox with these four strings.
Commands == {"left", "right", "uturn", "stop"}

ASSUME SendsAssumption == Sends \in [Writers -> SUBSET Commands]
ASSUME BoundsAssumption ==
    /\ TurnLimit \in Nat /\ UTurnLimit \in Nat
    /\ MaxNotch \in Nat /\ MaxWrites \in Nat
    /\ TurnLimit < MaxNotch /\ UTurnLimit < MaxNotch

Sides  == {"LEFT", "RIGHT"}
\* PWM levels; slow_speed is 0, so a wheel set to it is not driven.
Levels == {"off", "left_speed", "normal_speed"}
slow_speed == "off"

VARIABLES
    mPc,            \* where the motor task is
    manoeuvre,      \* which of turn_left, turn_right, u_turn is on its stack
    turning,        \* the flag
    motor_command,  \* the mailbox, in two pieces: see WriteHead
    pwm,            \* pwm[s]: level of the channel that drives the wheel on side s
    dir,            \* dir[s]: its direction pins
    notch_count,    \* notch_count[s]: encoder.c
    writing,        \* writing[w]: command task w is half-way through writing, or ""
    written,        \* history: calls of set_motor_command begun
    turns,          \* history: manoeuvres begun
    turned          \* history: see outside

motorVars == <<mPc, manoeuvre, turning, pwm, dir>>
wheelVars == <<notch_count, turned>>
vars == <<motorVars, motor_command, wheelVars, writing, written, turns>>

----------------------------------------------------------------------------
\* Wheels

Wheels(l, r) == [s \in Sides |-> IF s = "LEFT" THEN l ELSE r]

move_forward  == Wheels("forward", "forward")
move_backward == Wheels("backward", "backward")
move_stop     == Wheels("off", "off")
move_straight == Wheels("left_speed", "normal_speed")

\* Mutant of turn_pwm: the levels of the two turns are exchanged.
turn_pwm_exchanged(m) ==
    IF m = "left" THEN Wheels("left_speed", slow_speed)
                  ELSE Wheels(slow_speed, "normal_speed")
\* Mutants of reset_side and watched_side: the wheels of the two turns are exchanged.
reset_side_exchanged(m) == IF m = "left" THEN "LEFT" ELSE "RIGHT"
watched_side_exchanged(m) == IF m = "left" THEN "LEFT" ELSE "RIGHT"

\* turn_left and turn_right: one wheel driven, the other at slow_speed ...
turn_pwm(m) ==
    IF m = "left" THEN Wheels(slow_speed, "normal_speed")
                  ELSE Wheels("left_speed", slow_speed)
\* ... the argument of reset_notch in turn_left, turn_right and u_turn ...
reset_side(m) == IF m = "left" THEN "RIGHT" ELSE "LEFT"
\* ... and that of get_notch in their loops.
watched_side(m) == IF m = "left" THEN "RIGHT" ELSE "LEFT"

uturn_pwm == Wheels("normal_speed", "normal_speed")
uturn_dir == Wheels("forward", "backward")

reset_notch(s) == [notch_count EXCEPT ![s] = 0]

\* The number of notches to a turn by d degrees, as the low byte its callers keep.
degree_to_notch(d) == IF d >= 15 THEN d \div 15 ELSE 255

\* The wheel on the outside of a manoeuvre; turned is how many notches it has
\* made since the wheels were set for the one under way.
outside == IF manoeuvre = "left" THEN "RIGHT" ELSE "LEFT"
Performing == mPc \in {"turn", "spin", "settle"}

----------------------------------------------------------------------------
\* The mailbox.  snprintf writes the buffer from the first character on and
\* the motor task can be scheduled in between, so a write has two steps.  The
\* buffer reads as command c when both pieces come from c, and as the empty
\* string when the first character is the terminator, whatever follows it.

Received(c) == motor_command.head = c /\ motor_command.rest = c

WriteHead(w, c) ==
    /\ mPc \notin {"turn", "spin"}
    /\ writing[w] = ""
    /\ written < MaxWrites
    /\ motor_command' = [motor_command EXCEPT !.head = c]
    /\ writing' = [writing EXCEPT ![w] = c]
    /\ written' = written + 1
    /\ UNCHANGED <<motorVars, wheelVars, turns>>

WriteRest(w) ==
    /\ mPc \notin {"turn", "spin"}
    /\ writing[w] # ""
    /\ motor_command' = [motor_command EXCEPT !.rest = writing[w]]
    /\ writing' = [writing EXCEPT ![w] = ""]
    /\ UNCHANGED <<motorVars, wheelVars, written, turns>>

\* Mutant of clear_command: the end of a manoeuvre leaves the mailbox alone.
command_kept == motor_command
\* snprintf(motor_command, ..., "") stores the terminator and nothing else.
clear_command == [motor_command EXCEPT !.head = ""]

----------------------------------------------------------------------------
\* The motor task

Init ==
    /\ mPc = "delay"
    /\ manoeuvre = ""
    /\ turning = FALSE
    /\ motor_command = [head |-> "", rest |-> ""]
    /\ pwm = move_straight
    /\ dir = move_forward
    /\ notch_count = [s \in Sides |-> 0]
    /\ writing = [w \in Writers |-> ""]
    /\ written = 0
    /\ turns = 0
    /\ turned = 0

\* The 100-tick delay of the loop has expired, and the task reads the mailbox.
\* It always finds turning FALSE there: see PhaseInv.
Poll(c) == mPc = "delay" /\ turning = FALSE /\ Received(c)

Begin(m) ==
    /\ manoeuvre' = m
    /\ turning' = TRUE
    /\ turns' = turns + 1
    /\ UNCHANGED <<motor_command, wheelVars, writing, written>>

\* Mutant of ReactTurn: the branch for "right=90" never matches.
ReactLeftOnly(m) ==
    /\ m = "left"
    /\ Poll(m)
    /\ Begin(m)
    /\ dir' = move_backward
    /\ mPc' = "back"
    /\ UNCHANGED pwm

\* "left=90", "right=90": back off for 500 ticks.
ReactTurn(m) ==
    /\ Poll(m)
    /\ Begin(m)
    /\ dir' = move_backward
    /\ mPc' = "back"
    /\ UNCHANGED pwm

\* "stop=1": stop both wheels, then the same as "left=90".
ReactStop ==
    /\ Poll("stop")
    /\ Begin("left")
    /\ pwm' = move_stop
    /\ dir' = move_backward
    /\ mPc' = "back"

\* Mutant of ReactUTurn: without move_stop.
ReactUTurnRolling == Poll("uturn") /\ Begin("uturn") /\ mPc' = "halt" /\ UNCHANGED <<pwm, dir>>

\* "U-turn=180": stand still for 800 ms.
ReactUTurn ==
    /\ Poll("uturn")
    /\ Begin("uturn")
    /\ pwm' = move_stop
    /\ mPc' = "halt"
    /\ UNCHANGED dir

\* Anything else: the levels the PID step computes are replaced at once by
\* those of move_straight.
Cruise ==
    /\ mPc = "delay" /\ turning = FALSE
    /\ \A c \in Commands : ~Received(c)
    /\ pwm' = move_straight
    /\ UNCHANGED <<mPc, manoeuvre, turning, dir>>
    /\ UNCHANGED <<motor_command, wheelVars, writing, written, turns>>

Turn ==
    /\ mPc = "back"
    /\ dir' = move_forward
    /\ pwm' = turn_pwm(manoeuvre)
    /\ notch_count' = reset_notch(reset_side(manoeuvre))
    /\ turned' = 0
    /\ mPc' = "turn"
    /\ UNCHANGED <<manoeuvre, turning, motor_command, writing, written, turns>>

Spin ==
    /\ mPc = "halt"
    /\ pwm' = uturn_pwm
    /\ dir' = [dir EXCEPT !["RIGHT"] = "backward"]
    /\ notch_count' = reset_notch(reset_side("uturn"))
    /\ turned' = 0
    /\ mPc' = "spin"
    /\ UNCHANGED <<manoeuvre, turning, motor_command, writing, written, turns>>

\* The two busy-waits: an unsuccessful test changes nothing.
EndTurn ==
    /\ mPc = "turn"
    /\ notch_count[watched_side(manoeuvre)] > TurnLimit
    /\ pwm' = move_straight
    /\ mPc' = "settle"
    /\ UNCHANGED <<manoeuvre, turning, dir>>
    /\ UNCHANGED <<motor_command, wheelVars, writing, written, turns>>

\* Mutant of EndSpin: the right wheel keeps running backward.
EndSpinReversed ==
    /\ mPc = "spin"
    /\ notch_count[watched_side("uturn")] > UTurnLimit
    /\ mPc' = "settle"
    /\ UNCHANGED <<manoeuvre, turning, pwm, dir>>
    /\ UNCHANGED <<motor_command, wheelVars, writing, written, turns>>

EndSpin ==
    /\ mPc = "spin"
    /\ notch_count[watched_side("uturn")] > UTurnLimit
    /\ dir' = [dir EXCEPT !["RIGHT"] = "forward"]
    /\ mPc' = "settle"
    /\ UNCHANGED <<manoeuvre, turning, pwm>>
    /\ UNCHANGED <<motor_command, wheelVars, writing, written, turns>>

\* 500 ticks later the flag and the mailbox are cleared, whatever was written
\* to the mailbox during the manoeuvre.
Finish ==
    /\ mPc = "settle"
    /\ turning' = FALSE
    /\ manoeuvre' = ""
    /\ motor_command' = clear_command
    /\ mPc' = "delay"
    /\ turned' = 0
    /\ UNCHANGED <<pwm, dir, notch_count, writing, written, turns>>

MotorStep ==
    \/ \E m \in {"left", "right"} : ReactTurn(m)
    \/ ReactStop \/ ReactUTurn \/ Cruise
    \/ Turn \/ Spin \/ EndTurn \/ EndSpin \/ Finish

----------------------------------------------------------------------------
\* encoder_callback, rising edge.  A wheel may also roll when it is not driven.

Notch(s) ==
    /\ notch_count[s] < MaxNotch
    /\ notch_count' = [notch_count EXCEPT ![s] = @ + 1]
    /\ turned' = IF Performing /\ s = outside THEN turned + 1 ELSE turned
    /\ UNCHANGED <<motorVars, motor_command, writing, written, turns>>

DrivenNotch(s) == pwm[s] # "off" /\ Notch(s)

Next ==
    \/ MotorStep
    \/ \E s \in Sides : Notch(s)
    \/ \E w \in Writers : WriteRest(w) \/ \E c \in Sends[w] : WriteHead(w, c)

\* Delays expire and the motor task is the first to run then; a driven wheel
\* turns; a task of priority 0 that is ready gets its time slice during the
\* delays of the motor task.
Fairness ==
    /\ WF_vars(MotorStep)
    /\ \A s \in Sides : WF_vars(DrivenNotch(s))
    /\ \A w \in Writers : SF_vars(WriteRest(w))

SafetySpec == Init /\ [][Next]_vars
Spec == SafetySpec /\ Fairness

----------------------------------------------------------------------------
\* Properties

TypeOK ==
    /\ mPc \in {"delay", "back", "turn", "halt", "spin", "settle"}
    /\ manoeuvre \in {"", "left", "right", "uturn"}
    /\ turning \in BOOLEAN
    /\ motor_command \in [head : Commands \cup {""}, rest : Commands \cup {""}]
    /\ pwm \in [Sides -> Levels]
    /\ dir \in [Sides -> {"forward", "backward"}]
    /\ notch_count \in [Sides -> 0..MaxNotch]
    /\ writing \in [Writers -> Commands \cup {""}]
    /\ written \in 0..MaxWrites
    /\ turns \in Nat
    /\ turned \in Nat

BusyWaiting == mPc \in {"turn", "spin"}

\* A busy-wait watches a wheel that is driven: the loops of turn_left,
\* turn_right and u_turn run at priority 8 without a delay, and on any other
\* wheel they would hold the processor for good.
BusyWaitOnDrivenWheel == BusyWaiting => pwm[watched_side(manoeuvre)] # "off"

\* motor.c:198, "left wheel encoder's notch should be 0 to calculate how many
\* notch it has travelled": a manoeuvre is not over before the wheel on its
\* outside has made more notches in this manoeuvre than the limit, whatever
\* both counters held when it began, from earlier manoeuvres, from driving
\* ahead, or from backing off just before.
ManoeuvreIsFull ==
    mPc = "settle" =>
        turned > (IF manoeuvre = "uturn" THEN UTurnLimit ELSE TurnLimit)

\* One call of set_motor_command starts at most one manoeuvre, although the
\* write can be interrupted half-way, by the poll that starts the manoeuvre
\* or by the reset that ends one, and the tail of the string stays in the
\* buffer when the mailbox is cleared.
OneTurnPerCommand == turns <= written

\* The task polls for the next command only with both wheels driven forward
\* and the flag clear: no exit from a manoeuvre leaves a wheel reversed or
\* stopped.
PollsRunningAhead ==
    mPc = "delay" =>
        /\ turning = FALSE
        /\ \A s \in Sides : pwm[s] # "off" /\ dir[s] = "forward"

\* The busy-waits end, so the tasks of lower priority (line sensor, barcode
\* reader, receivers, web server) run again and again.
OthersRun == []<>~BusyWaiting

\* The invariant behind these properties, inductive together with TypeOK.
\* The flag and the manoeuvre on the stack follow the phase ...
PhaseInv ==
    /\ turning = (mPc # "delay")
    /\ manoeuvre = "" <=> mPc = "delay"
    /\ mPc \in {"back", "turn"} => manoeuvre \in {"left", "right"}
    /\ mPc \in {"halt", "spin"} => manoeuvre = "uturn"

\* ... the direction pins and the levels do as well, up to what was left by
\* the manoeuvre before ...
WheelInv ==
    /\ dir = CASE mPc = "back" -> move_backward
               [] mPc = "spin" -> uturn_dir
               [] OTHER        -> move_forward
    /\ mPc = "turn" => pwm = turn_pwm(manoeuvre)
    /\ mPc = "spin" => pwm = uturn_pwm
    /\ mPc = "halt" => pwm = move_stop
    /\ mPc \in {"delay", "settle"} => pwm \in {move_straight, uturn_pwm}
    /\ mPc = "back" => \/ pwm \in {move_straight, uturn_pwm}
                       \/ pwm = move_stop /\ manoeuvre = "left"

\* ... the count a busy-wait watches is what the wheel on the outside has made,
\* and has passed the limit when the busy-wait is over ...
NotchInv ==
    /\ Performing => turned = notch_count[outside]
    /\ ManoeuvreIsFull

\* ... and a mailbox that is not empty when it is polled accounts for one
\* write that has not started a manoeuvre.
pending == IF mPc = "delay" /\ motor_command.head # "" THEN 1 ELSE 0
CountInv == turns + pending <= written

MotorInv == TypeOK /\ PhaseInv /\ WheelInv /\ NotchInv /\ CountInv

\* The wheels, as CarMotion sees them.
Movement(p, d) == [s \in Sides |-> IF p[s] = "off" THEN "still" ELSE d[s]]
Car == INSTANCE CarMotion WITH goal <- manoeuvre, motion <- Movement(pwm, dir)

\* The controller implements CarMotion: the wheels go through the prescribed
\* movements in the prescribed order, and every manoeuvre comes to its end.
Implements == Car!Spec

\* motor.c:309, "once detect white, turn 90 straight away": a command that is
\* written to the mailbox while another turn is under way is still followed by
\* the turn it asks for.
CommandIsFollowedByTurn ==
    \A m \in {"left", "right"} :
        (turning /\ manoeuvre # m /\ Received(m)) ~> (manoeuvre = m)
====
