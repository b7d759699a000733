---- MODULE Obstacle ----
(***************************************************************************)
(* Obstacle detection of the integrated firmware, obstacle.c: the task     *)
(* ultrasonic_main, its queue, and the task recv_ultrasonic of main.c that *)
(* hands the commands to the motor (module Motor, of which it is a         *)
(* writer).  vLaunch has the line that starts ultrasonic_main commented    *)
(* out; this is the task as it is.                                         *)
(*                                                                         *)
(* All messages are the same, "U-turn=180", so the queue is their number.  *)
(***************************************************************************)
EXTENDS Ultrasonic

CONSTANTS
    Near,       \* an average of 1 to Near cm is an obstacle (12)
    QueueLen    \* length of the queue (5)

ASSUME NearAssumption == Near \in Nat /\ QueueLen \in Nat

VARIABLES
    obstacleDetected,
    queue,          \* number of messages in the queue
    sends,          \* history: calls of send_ultrasonic_data
    lastSend,       \* history: the reading of the latest of them
    close,          \* history: how many of the latest readings were 1..Near
    spell           \* history: calls since the average was last out of 1..Near

taskVars == <<obstacleDetected, queue, sends, lastSend, close, spell>>
vars == <<sensorVars, taskVars>>

Init ==
    /\ UInit
    /\ obstacleDetected = FALSE
    /\ queue = 0
    /\ sends = 0 /\ lastSend = 0 /\ close = 0 /\ spell = 0

inRange(d) == d > 0 /\ d <= Near

\* xQueueSend without a timeout: with the queue full the message is lost.
send_ultrasonic_data ==
    /\ queue' = IF queue < QueueLen THEN queue + 1 ELSE queue
    /\ sends' = sends + 1 /\ lastSend' = polls

\* What the histories of the detector keep of a reading.
observe(new, average) ==
    /\ close' = IF inRange(new) THEN close + 1 ELSE 0
    /\ spell' = IF inRange(average) THEN spell + sends' - sends ELSE 0

\* Mutants of Detect: the flag is not looked at; it is only ever set.
DetectAlways ==
    LET average == movingAverage(getCm)
    IN  /\ uPc = "read" /\ unread = {}
        /\ uPc' = "delay" /\ forget
        /\ store(getCm)
        /\ IF inRange(average)
           THEN obstacleDetected' = TRUE /\ send_ultrasonic_data
           ELSE obstacleDetected' = FALSE /\ UNCHANGED <<queue, sends, lastSend>>
        /\ observe(getCm, average)
        /\ UNCHANGED <<echoVars, unread, polls, before>>

DetectOnce ==
    LET average == movingAverage(getCm)
    IN  /\ uPc = "read" /\ unread = {}
        /\ uPc' = "delay" /\ forget
        /\ store(getCm)
        /\ IF inRange(average) /\ ~obstacleDetected
           THEN obstacleDetected' = TRUE /\ send_ultrasonic_data
           ELSE UNCHANGED <<obstacleDetected, queue, sends, lastSend>>
        /\ observe(getCm, average)
        /\ UNCHANGED <<echoVars, unread, polls, before>>

\* The rest of a turn of ultrasonic_main's loop, after getPulse has read both
\* stamps.  Nothing in it is shared but the queue.
Detect ==
    LET average == movingAverage(getCm)
    IN  /\ uPc = "read" /\ unread = {}
        /\ uPc' = "delay" /\ forget
        /\ store(getCm)
        /\ IF inRange(average) /\ ~obstacleDetected
           THEN obstacleDetected' = TRUE /\ send_ultrasonic_data
           ELSE obstacleDetected' = FALSE /\ UNCHANGED <<queue, sends, lastSend>>
        /\ observe(getCm, average)
        /\ UNCHANGED <<echoVars, unread, polls, before>>

\* task_recv_ultrasonic_message: out of the queue and into the mailbox.
recv_ultrasonic ==
    /\ queue > 0
    /\ queue' = queue - 1
    /\ UNCHANGED <<sensorVars, obstacleDetected, sends, lastSend, close, spell>>

Finished == uPc = "delay" /\ polls = MaxPolls /\ echo = "idle" /\ queue = 0 /\ UNCHANGED vars

Next ==
    \/ Detect \/ recv_ultrasonic
    \/ (Trigger \/ Echo \/ \E x \in Stamps : ReadStamp(x)) /\ UNCHANGED taskVars
    \/ Finished

Spec == Init /\ [][Next]_vars

----------------------------------------------------------------------------
\* Properties

\* Every command has a cause in the four latest readings: one of them is at
\* most Near.  It need not be an obstacle: echoes that timed out are read as
\* 0, and three of them with one reading of 40 cm have an average of 10.
UTurnHasCause ==
    uPc = "delay" /\ polls > 0 /\ lastSend = polls => \E n \in Window : readings[n] <= Near

\* An obstacle that has been seen four times in a row, whatever was read
\* before, has caused a command at the latest reading or at the one before it.
ObstacleReported ==
    uPc = "delay" /\ close >= NUM_SAMPLES => lastSend + 1 >= polls

\* Two readings in a row never both cause a command: whatever the averages are,
\* a reading that sends is at least two after the one that sent before it.
SendsAlternate == [][sends' # sends /\ sends > 0 => lastSend' >= lastSend + 2]_vars

\* obstacle.c:140, "prevent ultrasonic from spamming send_ultrasonic_data
\* method": an obstacle that stays in front of the car is reported once.
OneCommandPerObstacle == spell <= 1
====
