---- MODULE IrDebounce ----
(***************************************************************************)
(* The line sensor of the bench program driver/irline, ir.c: an interrupt  *)
(* starts an alarm of 100 ms with the edges that caused it, the alarm sets *)
(* stop_signal, and the task detectLines shows it.  Edges that come while  *)
(* an alarm is running are ignored.                                        *)
(***************************************************************************)
EXTENDS Integers

CONSTANT MaxEdges   \* bound: edges in a behaviour

Edges == {"rise", "fall"}

VARIABLES
    pin,            \* level of ANALOG_PIN: "high" over black
    latched,        \* edges that the GPIO block holds for the interrupt
    alarm,          \* the edges given to the alarm, {} for -1
    stop_signal,
    lPc, looked,    \* the task: its next step, and what it read
    sensor,
    count,          \* history: number of edges
    ignored         \* history: the pin has moved since it made the alarm

vars == <<pin, latched, alarm, stop_signal, lPc, looked, sensor, count, ignored>>
task == <<lPc, looked, sensor>>

\* The program starts over white or over black.
Init ==
    /\ pin \in {"low", "high"}
    /\ latched = {} /\ alarm = {}
    /\ stop_signal = 1
    /\ lPc = "look" /\ looked = 1 /\ sensor = "WHITE"
    /\ count = 0 /\ ignored = (pin = "high")

Move ==
    /\ count < MaxEdges /\ count' = count + 1
    /\ pin' = IF pin = "low" THEN "high" ELSE "low"
    /\ latched' = latched \cup {IF pin = "low" THEN "rise" ELSE "fall"}
    /\ UNCHANGED <<alarm, stop_signal, ignored, task>>

\* Mutant of gpio_callback: the edge of the pin that is seen last is kept.
gpio_callback_again ==
    /\ latched # {} /\ latched' = {}
    /\ alarm' = alarm \cup latched
    /\ ignored' = (alarm = {} /\ latched = Edges /\ pin = "low")
    /\ UNCHANGED <<pin, stop_signal, count, task>>

\* The interrupt takes all edges that are latched.  Both at once count as a
\* rising one below, so the pin has to be high for the alarm to be right.
gpio_callback ==
    /\ latched # {} /\ latched' = {}
    /\ IF alarm = {}
       THEN alarm' = latched /\ ignored' = (latched = Edges /\ pin = "low")
       ELSE UNCHANGED alarm /\ ignored' = TRUE
    /\ UNCHANGED <<pin, stop_signal, count, task>>

debounce_callback ==
    /\ alarm # {} /\ alarm' = {}
    /\ stop_signal' = IF "rise" \in alarm THEN 0 ELSE 1
    /\ UNCHANGED <<pin, latched, count, ignored, task>>

\* The loop of detectLines: it reads stop_signal, then stores the colour.
Look ==
    /\ lPc = "look" /\ lPc' = "show"
    /\ looked' = stop_signal
    /\ UNCHANGED <<pin, latched, alarm, stop_signal, sensor, count, ignored>>

Show ==
    /\ lPc = "show" /\ lPc' = "look"
    /\ sensor' = IF looked = 0 THEN "BLACK" ELSE "WHITE"
    /\ UNCHANGED <<pin, latched, alarm, stop_signal, looked, count, ignored>>

detectLines == Look \/ Show

Next == Move \/ gpio_callback \/ debounce_callback \/ detectLines

\* Interrupts are served, alarms expire, the task has time slices.
Fairness ==
    WF_vars(gpio_callback) /\ WF_vars(debounce_callback) /\ WF_vars(Look) /\ WF_vars(Show)

Spec == Init /\ [][Next]_vars /\ Fairness

----------------------------------------------------------------------------
\* Properties

\* The colour shown becomes that under the sensor and stays, again unless the
\* latest edge was ignored: nothing corrects that.
ShownInTheEnd == <>[](ignored \/ (sensor = "BLACK") = (pin = "high"))
====
