---- MODULE RobotCar ----
(***************************************************************************)
(* The command path of the car as main.c starts it: the line sensor sends  *)
(* commands to its queue, the task recv_ir takes them out and writes each  *)
(* to the web page's buffer and to the motor's mailbox, and the motor task *)
(* polls the mailbox.                                                      *)
(*                                                                         *)
(* All run on one core.  The line sensor and recv_ir have priority 0: they *)
(* share the processor by time slices, and have it only while the motor    *)
(* task (priority 8) is blocked.  The encoder interrupt has it at any time.*)
(***************************************************************************)
EXTENDS Naturals, Sequences

CONSTANTS QueueLen, MaxSends, TurnLimit, UTurnLimit, MaxNotch

ASSUME CarAssumption ==
    /\ QueueLen \in Nat /\ MaxSends \in Nat
    /\ TurnLimit \in Nat /\ UTurnLimit \in Nat /\ MaxNotch \in Nat
    /\ TurnLimit < MaxNotch /\ UTurnLimit < MaxNotch

VARIABLES
    mPc, manoeuvre, turning, motor_command, pwm, dir, notch_count, writing,
    written, turns, turned,                             \* see Motor
    line, lPc, sensor, prev_sensor, queue, attempts, accepted, lastSend,
    passSends,                                          \* see LineSensor
    rPc,            \* where recv_ir is: "receive", "web" or "motor"
    received,       \* receivedValue, its local buffer
    ir_motor_data,  \* the web page's copy of the latest command
    recvId,         \* history: which accepted command is in received
    boxId           \* history: which one the mailbox begins with

M == INSTANCE Motor WITH
         Writers <- {"recv_ir"},
         Sends <- [recv_ir |-> {"left", "right"}],
         MaxWrites <- MaxSends + 1
L == INSTANCE LineSensor

recvVars == <<rPc, received, ir_motor_data, recvId, boxId>>
motorVars == <<mPc, manoeuvre, turning, motor_command, pwm, dir, notch_count,
               writing, written, turns, turned>>
sensorVars == <<line, lPc, sensor, prev_sensor, attempts, accepted, lastSend,
                passSends>>
vars == <<motorVars, sensorVars, queue, recvVars>>

Init ==
    /\ M!Init
    /\ L!Init
    /\ rPc = "receive" /\ received = "" /\ ir_motor_data = ""
    /\ recvId = 0 /\ boxId = 0

----------------------------------------------------------------------------
\* Mutant of Receive: the command is read and stays in the queue.
Peek ==
    /\ rPc = "receive"
    /\ queue # <<>>
    /\ received' = Head(queue)
    /\ recvId' = accepted - Len(queue) + 1
    /\ rPc' = "web"
    /\ UNCHANGED <<motorVars, sensorVars, queue, ir_motor_data, boxId>>

\* task_recv_ir_message, from xQueueReceive on; the delay of 100 ticks before
\* it is part of waiting for Receive.

Receive ==
    /\ rPc = "receive"
    /\ queue # <<>>
    /\ received' = Head(queue)
    /\ queue' = Tail(queue)
    /\ recvId' = accepted - Len(queue) + 1
    /\ rPc' = "web"
    /\ UNCHANGED <<motorVars, sensorVars, ir_motor_data, boxId>>

\* Mutant of set_ir_motor_command: the page is not told.
page_not_told ==
    /\ rPc = "web"
    /\ rPc' = "motor"
    /\ UNCHANGED <<motorVars, sensorVars, queue, received, ir_motor_data, recvId, boxId>>

set_ir_motor_command ==
    /\ rPc = "web"
    /\ ir_motor_data' = received
    /\ rPc' = "motor"
    /\ UNCHANGED <<motorVars, sensorVars, queue, received, recvId, boxId>>

\* set_motor_command, in the two steps of Motor.
WriteHead ==
    /\ rPc = "motor"
    /\ M!WriteHead("recv_ir", received)
    /\ boxId' = recvId
    /\ UNCHANGED <<sensorVars, queue, rPc, received, ir_motor_data, recvId>>

\* Mutant of WriteRest: the size given to snprintf cuts the command off.
WriteTruncated ==
    /\ rPc = "motor"
    /\ ~M!BusyWaiting /\ writing["recv_ir"] # ""
    /\ writing' = [writing EXCEPT !["recv_ir"] = ""]
    /\ rPc' = "receive"
    /\ UNCHANGED <<mPc, manoeuvre, turning, motor_command, pwm, dir, notch_count, written, turns, turned>>
    /\ UNCHANGED <<sensorVars, queue, received, ir_motor_data, recvId, boxId>>

WriteRest ==
    /\ rPc = "motor"
    /\ M!WriteRest("recv_ir")
    /\ rPc' = "receive"
    /\ UNCHANGED <<sensorVars, queue, received, ir_motor_data, recvId, boxId>>

recv_ir == Receive \/ set_ir_motor_command \/ WriteHead \/ WriteRest

----------------------------------------------------------------------------
\* Priorities

MotorTask == M!MotorStep /\ UNCHANGED <<sensorVars, queue, recvVars>>
RecvTask  == ~M!BusyWaiting /\ recv_ir
LineTask  == ~M!BusyWaiting /\ L!Poll /\ UNCHANGED <<motorVars, recvVars>>

Encoder(s) == M!Notch(s) /\ UNCHANGED <<sensorVars, queue, recvVars>>
LineMoves  == L!Move /\ UNCHANGED <<motorVars, recvVars>>

Next ==
    \/ MotorTask \/ RecvTask \/ LineTask
    \/ LineMoves
    \/ \E s \in M!Sides : Encoder(s)

\* As in Motor.  A task of priority 0 loses the processor again and again, so
\* it is continually enabled only between the busy-waits: strong fairness.
Fairness ==
    /\ WF_vars(MotorTask)
    /\ \A s \in M!Sides : WF_vars(pwm[s] # "off" /\ Encoder(s))
    /\ SF_vars(RecvTask)
    /\ SF_vars(LineTask)

SafetySpec == Init /\ [][Next]_vars
Spec == SafetySpec /\ Fairness

----------------------------------------------------------------------------
\* Properties

TypeOK ==
    /\ M!TypeOK
    /\ L!TypeOK
    /\ rPc \in {"receive", "web", "motor"}
    /\ received \in {"", "left", "right"}
    /\ ir_motor_data \in {"", "left", "right"}
    /\ boxId <= recvId /\ recvId <= accepted

\* Accepted commands that have not yet begun to be written to the mailbox.
Underway == accepted - boxId

\* Every manoeuvre has a cause: a command the line sensor sent, that found
\* room in the queue and that has reached the mailbox; and no command causes
\* two.
TurnsHaveCauses == turns + Underway <= accepted

\* The motor acts on a command at most QueueLen + 1 commands behind the
\* latest accepted one: a full queue and the command in the hands of recv_ir.
BoundedStaleness ==
    mPc = "delay" /\ (\E c \in {"left", "right"} : M!Received(c))
        => Underway <= QueueLen + 1

\* The web page is not behind the motor: a command that the motor is about to
\* act on is shown, unless a later one already is.
PageNotBehindMotor ==
    \A c \in {"left", "right"} :
        mPc = "delay" /\ M!Received(c) /\ ir_motor_data # c => recvId > boxId

\* See LineSensor: these survive the interleaving with the other tasks.
LatestCommandMatchesSensors == L!LatestCommandMatchesSensors
OneCommandPerPass == L!OneCommandPerPass

\* The tasks of this module are an environment in which Motor may be run, and
\* in which what Motor assumes about the scheduling of its writer holds.
ImplementsMotor == M!Spec

\* Whatever turns are made meanwhile, an accepted command reaches the mailbox.
AcceptedIsDelivered ==
    \A n \in 1..MaxSends : accepted >= n ~> boxId >= n

\* A complete command that stands in the mailbox while the car runs ahead is
\* followed by a manoeuvre: its own or that of the command which overwrites it.
CommandStartsTurn ==
    (mPc = "delay" /\ \E c \in {"left", "right"} : M!Received(c)) ~> turning
====
