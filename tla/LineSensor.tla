---- MODULE LineSensor ----
(***************************************************************************)
(* The line sensor of the integrated firmware: the detectLines task of     *)
(* ir.c and the FreeRTOS queue it sends its commands to.  Every 100 ticks  *)
(* the task reads the right sensor, then the left one, and after each      *)
(* reading it may send a command.  It has priority 0: other tasks, and the *)
(* car itself, move between the two readings.                              *)
(*                                                                         *)
(* The module starts where the loop starts, with the queue created; who    *)
(* creates it is the subject of QueueBoot.                                 *)
(***************************************************************************)
EXTENDS Naturals, Sequences

CONSTANTS
    QueueLen,     \* length of the queue (5)
    MaxSends      \* bound: the line keeps still after so many commands

WHITE == 0
BLACK == 1
Sides == {"LEFT", "RIGHT"}

VARIABLES
    line,         \* line[s]: what is under the sensor on side s
    lPc,          \* "delay", or "left": the right sensor has been read
    sensor,       \* sensor[s]: the latest reading
    prev_sensor,  \* prev_sensor[s]: the reading already reacted to
    queue,        \* commands sent and not received
    attempts,     \* history: calls of xQueueSend
    accepted,     \* history: those that found room in the queue
    lastSend,     \* history: the latest command sent, whether or not accepted
    passSends     \* history: calls of xQueueSend in the current pass

lineVars == <<lPc, sensor, prev_sensor, attempts, accepted, lastSend, passSends>>
vars == <<line, queue, lineVars>>

Init ==
    /\ line \in [Sides -> {WHITE, BLACK}]
    /\ lPc = "delay"
    /\ sensor = [s \in Sides |-> WHITE]
    /\ prev_sensor = [s \in Sides |-> WHITE]
    /\ queue = <<>>
    /\ attempts = 0 /\ accepted = 0 /\ lastSend = "" /\ passSends = 0

\* The car, or the line under it, moves.
Move ==
    /\ attempts < MaxSends
    /\ \E s \in Sides : line' = [line EXCEPT ![s] = 1 - @]
    /\ UNCHANGED <<queue, lineVars>>

\* The command for a pair of readings, "" for none.
command(r) ==
    CASE r["LEFT"] = WHITE /\ r["RIGHT"] = BLACK -> "left"
      [] r["LEFT"] = BLACK /\ r["RIGHT"] = WHITE -> "right"
      [] OTHER -> ""

\* Mutant of send_sensor_data: the queue takes any number of commands.
send_unbounded(c) ==
    /\ lastSend' = c
    /\ attempts' = attempts + 1
    /\ accepted' = accepted + 1
    /\ queue' = Append(queue, c)

\* xQueueSend without a timeout: with the queue full the command is lost, and
\* nobody looks at the result.
send_sensor_data(c) ==
    /\ lastSend' = c
    /\ attempts' = attempts + 1
    /\ IF Len(queue) < QueueLen
       THEN queue' = Append(queue, c) /\ accepted' = accepted + 1
       ELSE UNCHANGED <<queue, accepted>>

\* Mutants of Read: the command is chosen before the reading is stored; a
\* reading is reacted to whether or not it has changed.
ReadLate(s, sent) ==
    /\ sensor' = [sensor EXCEPT ![s] = line[s]]
    /\ prev_sensor' = [prev_sensor EXCEPT ![s] = line[s]]
    /\ UNCHANGED line
    /\ IF line[s] # prev_sensor[s] /\ command(sensor) # ""
       THEN send_sensor_data(command(sensor)) /\ passSends' = sent + 1
       ELSE UNCHANGED <<queue, attempts, accepted, lastSend>> /\ passSends' = sent

ReadLevel(s, sent) ==
    /\ sensor' = [sensor EXCEPT ![s] = line[s]]
    /\ prev_sensor' = [prev_sensor EXCEPT ![s] = line[s]]
    /\ UNCHANGED line
    /\ IF command(sensor') # ""
       THEN send_sensor_data(command(sensor')) /\ passSends' = sent + 1
       ELSE UNCHANGED <<queue, attempts, accepted, lastSend>> /\ passSends' = sent

\* A reading of side s, in which "sent" is the number of commands that the
\* pass has sent so far.  The other side's entry of sensor may be the reading
\* of the previous pass.
Read(s, sent) ==
    /\ sensor' = [sensor EXCEPT ![s] = line[s]]
    /\ prev_sensor' = [prev_sensor EXCEPT ![s] = line[s]]
    /\ UNCHANGED line
    /\ IF line[s] # prev_sensor[s] /\ command(sensor') # ""
       THEN send_sensor_data(command(sensor')) /\ passSends' = sent + 1
       ELSE UNCHANGED <<queue, attempts, accepted, lastSend>> /\ passSends' = sent

ReadRight == lPc = "delay" /\ lPc' = "left" /\ Read("RIGHT", 0)
ReadLeft  == lPc = "left" /\ lPc' = "delay" /\ Read("LEFT", passSends)

Poll == ReadRight \/ ReadLeft

----------------------------------------------------------------------------
\* Properties

TypeOK ==
    /\ line \in [Sides -> {WHITE, BLACK}]
    /\ lPc \in {"delay", "left"}
    /\ sensor \in [Sides -> {WHITE, BLACK}]
    /\ prev_sensor \in [Sides -> {WHITE, BLACK}]
    /\ queue \in Seq({"left", "right"}) /\ Len(queue) <= QueueLen
    /\ accepted <= attempts /\ attempts <= MaxSends + 1
    /\ lastSend \in {"", "left", "right"}
    /\ passSends \in Nat

\* At the end of a pass that has left the two sensors with different colours,
\* the latest command sent is the one for these colours, whatever stale
\* reading of the left sensor the first half of the pass has acted on.
LatestCommandMatchesSensors ==
    lPc = "delay" /\ command(sensor) # "" => lastSend = command(sensor)

\* The two halves of a pass never both send: the car does not receive
\* contradicting commands from one pass.
OneCommandPerPass == passSends <= 1
====
