---- MODULE Ultrasonic ----
(***************************************************************************)
(* The ultrasonic sensor: src/Robot/ultrasonic/ultrasonic.c, and the       *)
(* moving average that obstacle.c takes of its readings.                   *)
(*                                                                         *)
(* A reading triggers the sensor and returns the difference of two time    *)
(* stamps that the echo interrupt stores.  The echo of a trigger comes     *)
(* after the reading has returned, unless the task is held up: the         *)
(* interrupt can come before, between and after its two accesses to the    *)
(* stamps.  Which of the two it reads first is not specified.              *)
(*                                                                         *)
(* Time is in units of 58 us, in which an echo is as long as the distance  *)
(* is in cm; the divisions by 29 and by 2 drop less than a unit.  Trigger  *)
(* k comes at k * Period.  Its echo rises Lag later, and has ended by the  *)
(* next trigger: the longest lasts 38 ms, a period 100 ms.                 *)
(***************************************************************************)
EXTENDS Integers

CONSTANTS
    Period,     \* ticks of vTaskDelay(100) (1724)
    Lag,        \* from the trigger to the rising edge of the echo (8)
    Timeout,    \* timeout_us (450)
    Distances,  \* how far things are: lengths of echoes
    MaxPolls    \* bound: readings in a behaviour

NUM_SAMPLES == 4

\* uint16_t, and (2^64 / 58) mod 2^16: what a negative difference begins from
\* once it is a uint64_t, has been divided and is cut to 16 bits.
Modulus == 65536
Wrap    == 58756

ASSUME TimesAssumption ==
    /\ Period \in Nat /\ Lag \in Nat /\ Timeout \in 1..(Modulus - 1)
    /\ Distances \subseteq Nat \ {0}
    /\ MaxPolls \in Nat

Stamps == {"startTime", "endTime"}
Window == 0..(NUM_SAMPLES - 1)

VARIABLES
    time,       \* time[x]: the two stamps of ultrasonic.c
    echo,       \* "idle", "armed" by a trigger, or "high"
    uPc,        \* where the reading task is: "delay" or "read"
    unread,     \* the stamps that getPulse has still to read
    stamp,      \* stamp[x]: what it has read
    readings, index, sum, count,    \* the window of the moving average
    polls,      \* history: number of triggers
    lastEcho,   \* history: distance of the last echo, 0 if it was too long
    before,     \* history: lastEcho at the latest trigger
    disturbed   \* history: an edge came between that trigger and the reading

echoVars  == <<time, echo, lastEcho, disturbed>>
pollVars  == <<uPc, unread, stamp, polls, before>>
averageVars == <<readings, index, sum, count>>
sensorVars == <<echoVars, pollVars, averageVars>>

UInit ==
    /\ time = [x \in Stamps |-> 0] /\ stamp = [x \in Stamps |-> 0]
    /\ echo = "idle"
    /\ uPc = "delay" /\ unread = {}
    /\ readings = [n \in Window |-> 0]
    /\ index = 0 /\ sum = 0 /\ count = 0
    /\ polls = 0 /\ lastEcho = 0 /\ before = 0 /\ disturbed = FALSE

----------------------------------------------------------------------------
\* The echo

rising == polls * Period + Lag

disturb == disturbed' = (disturbed \/ unread # {})

\* echoPinInterrupt on a rising edge ...
EchoRise ==
    /\ echo = "armed" /\ echo' = "high"
    /\ time' = [time EXCEPT !["startTime"] = rising]
    /\ disturb
    /\ UNCHANGED <<lastEcho, pollVars, averageVars>>

\* Mutant of EchoFall: an echo that has timed out keeps its length.
EchoFallUnlimited ==
    /\ echo = "high" /\ echo' = "idle"
    /\ \E d \in Distances :
          /\ time' = [time EXCEPT !["endTime"] = rising + d]
          /\ lastEcho' = IF d >= Timeout THEN 0 ELSE d
    /\ disturb
    /\ UNCHANGED <<pollVars, averageVars>>

timedOut(end) == end - time["startTime"] >= Timeout

\* ... on a falling one: an echo that has timed out is given the length 0 ...
EchoFall ==
    /\ echo = "high" /\ echo' = "idle"
    /\ \E d \in Distances :
          /\ time' = IF timedOut(rising + d) THEN [x \in Stamps |-> rising + d]
                     ELSE [time EXCEPT !["endTime"] = rising + d]
          /\ lastEcho' = IF timedOut(rising + d) THEN 0 ELSE d
    /\ disturb
    /\ UNCHANGED <<pollVars, averageVars>>

\* ... and on both at once, when other interrupts have kept it from running.
EchoMerged ==
    /\ echo = "armed" /\ echo' = "idle"
    /\ \E d \in Distances : time' = [x \in Stamps |-> rising + d]
    /\ lastEcho' = 0
    /\ disturb
    /\ UNCHANGED <<pollVars, averageVars>>

\* The sensor does not answer.
NoEcho ==
    /\ echo = "armed" /\ echo' = "idle"
    /\ UNCHANGED <<time, lastEcho, disturbed, pollVars, averageVars>>

Echo == EchoRise \/ EchoFall \/ EchoMerged \/ NoEcho

----------------------------------------------------------------------------
\* getPulse: the trigger, and at once the two stamps.

Trigger ==
    /\ uPc = "delay" /\ uPc' = "read"
    /\ echo = "idle" /\ echo' = "armed"
    /\ polls < MaxPolls /\ polls' = polls + 1
    /\ unread' = Stamps
    /\ before' = lastEcho /\ disturbed' = FALSE
    /\ UNCHANGED <<time, stamp, lastEcho, averageVars>>

ReadStamp(x) ==
    /\ x \in unread /\ unread' = unread \ {x}
    /\ stamp' = [stamp EXCEPT ![x] = time[x]]
    /\ UNCHANGED <<uPc, polls, before, echoVars, averageVars>>

\* The difference becomes a uint64_t in getPulse, getCm divides it, and
\* calculateMovingAverage takes it as a uint16_t.
getCm ==
    LET pulse == stamp["endTime"] - stamp["startTime"]
    IN  (IF pulse >= 0 THEN pulse ELSE Wrap + pulse) % Modulus

\* getPulse has returned: its copies are gone.
forget == stamp' = [x \in Stamps |-> 0]

\* calculateMovingAverage
store(new) ==
    /\ readings' = [readings EXCEPT ![index] = new]
    /\ sum' = sum - readings[index] + new
    /\ index' = (index + 1) % NUM_SAMPLES
    /\ count' = IF count < NUM_SAMPLES THEN count + 1 ELSE count

\* Mutant of movingAverage: it is taken before the reading is added.
movingAverage_before(new) ==
    IF count >= NUM_SAMPLES THEN (sum - readings[index]) \div NUM_SAMPLES ELSE new

\* The reading itself until four others are in the window.
movingAverage(new) ==
    IF count >= NUM_SAMPLES THEN (sum - readings[index] + new) \div NUM_SAMPLES ELSE new

----------------------------------------------------------------------------
\* Properties

UTypeOK ==
    /\ time \in [Stamps -> Nat] /\ stamp \in [Stamps -> Nat]
    /\ echo \in {"idle", "armed", "high"}
    /\ uPc \in {"delay", "read"} /\ unread \subseteq Stamps
    /\ readings \in [Window -> 0..(Modulus - 1)]
    /\ index \in Window /\ count \in 0..NUM_SAMPLES /\ sum \in Nat
    /\ polls \in 0..MaxPolls
    /\ lastEcho \in 0..(Timeout - 1) /\ before \in 0..(Timeout - 1)
    /\ disturbed \in BOOLEAN

\* The reading that was stored last.
latest == readings[(index + 3) % NUM_SAMPLES]

\* The running sum, from which readings are subtracted that were stored four
\* turns ago, is the sum of the window.
SumIsWindow == sum = readings[0] + readings[1] + readings[2] + readings[3]

\* getPulse does not wait for the echo it has triggered.  Undisturbed, a
\* reading is the distance of the last echo before its trigger, however long
\* ago that was, and 0 if that echo timed out; it is never a mixture.
ReadingIsEchoBefore == uPc = "delay" /\ polls > 0 /\ ~disturbed => latest = before
====
