# A TLA+ model of the INF2004 robot car

The repository is the firmware of a small two-wheeled car (Raspberry Pi Pico W,
FreeRTOS on one core) that follows a track between two lines, reads barcodes,
avoids obstacles and reports to a web page, and separate programs: one that
searches a maze, bench programs for single sensors, and a pair that sends a
temperature over Bluetooth. This directory holds TLA+ modules translated from
that code, the TLC configurations that check them, and TLAPS proofs. `IRR` below
stands for `src/Robot/pico_w/wifi/freertos/irr/`, the integrated firmware.

## 1. Inventory

| Component | State | Operations | Talks to |
|---|---|---|---|
| Motor controller, `IRR/motor.c` | `motor_command` (mailbox), `turning`, PWM levels, direction pins | `set_motor_command`; the task `react_to_commands` (priority 8): `turn_left`, `turn_right`, `u_turn`, stop, straight on | reads the encoder's counts; its mailbox is written by the receiver tasks |
| Wheel encoder, `IRR/encoder.c`, `gpio_handler.c` | `notch_count`, `distance`, `speed_count`, `pulse_start_time` per wheel | `encoder_callback` (interrupt), `reset_notch`, `get_notch`, `reset_distance`, `get_distance`, `get_speed` | motor controller, mapping |
| Line sensor, `IRR/ir.c` | `sensor`, `prev_sensor`, the queue and its static handle | the task `detectLines` (priority 0), `send_sensor_data`, `IRMessageHandler` | IR receiver |
| Receivers, `IRR/main.c` | a copy of each queue's handle, `receivedValue` | `task_recv_ir_message`, `task_recv_barcode_message`, `task_recv_ultrasonic_message` (priority 0) | queues, mailbox, web buffers |
| Start-up, `IRR/main.c`, `FreeRTOSConfig.h` | tasks and priorities | `vLaunch`, `start_recv_msg_task`, `main_task` (WiFi and web server, priority 1) | everything |
| Barcode reader, `IRR/barcode_reader.c` | window of ten bars, the last three characters, queue | ADC interrupt, `compareTwoArray`, `isValidBarcode`, `send_barcode_data` | barcode receiver |
| Obstacle detection, `IRR/obstacle.c`, `src/Robot/ultrasonic/ultrasonic.c` | echo time stamps, averaging window, `obstacleDetected`, queue | echo interrupt, `getPulse`, `calculateMovingAverage`, the task `ultrasonic_main` (not started by `vLaunch`) | ultrasonic receiver |
| Mapping, `IRR/mapping.c` | list of cells, `robot` | `isNewBlock`, the task `mapping_thread` (priority 8) | encoder's distance |
| Web pages, `IRR/ssi.h`, `cgi.h` | `ir_motor_data`, `barcode_data`, `maze_data` | setters, `ssi_handler`, `cgi_led_handler` | receivers, web server |
| Maze search, `src/MappingAlgorithm.c` | visited cells, queue, linked cells, robot | `performBFS`, `goTo`, `printLinkedList` (and functions nothing calls) | nothing (a program of its own) |
| Magnetometer, `IRR/magnetometer.c` | I2C readings | reads registers, filters, prints; not started | nothing |
| Line sensor and barcode bench, `src/driver/irline` | `alarm`, `stop_signal`; window of bars, the last three characters | GPIO interrupt and alarm, `detectLines`; ADC interrupt, `temp_detect` | each its own interrupt |
| Bluetooth temperature, `src/Robot/pico_w/bt/standalone` | client: `state`, connection, listener; server: `le_notification_enabled`, `con_handle`, `current_temp` | handlers of BTstack events on both sides | one another, by radio |
| Other programs in `src/driver`, `src/Robot/pico_webserver`, `btstack_audio_pico.c`, `htmldata.c` | | earlier copies of the firmware's drivers, SDK code, generated pages | nothing |

What makes each of them correct:

* motor: a manoeuvre moves the wheels in the prescribed order, is measured from
  its own start, ends, and leaves the car running ahead; one command makes at
  most one manoeuvre; the busy-waits never take the processor for good;
* line sensor: the last command sent is the one for the colours the sensors
  see, and one pass never sends two;
* queues: both ends use the same queue; what is accepted is delivered, in
  order, and is not older than the queue is long when the motor acts on it;
* encoder and mapping: no edge counts twice, a distance comes with its notch, a
  block that was driven is reported (edges may be lost: section 3);
* barcode: what is read are the characters of the track in their order; three
  characters are sent once, as they were read, and appear on the page;
* obstacle detection: an obstacle is reported, and what is reported goes back
  to readings that were measured;
* maze search: it visits exactly the cells that can be reached, each once;
* line sensor bench: the colour shown is in the end that under the sensor;
* magnetometer: a value is close to a sample, however its bytes were read;
* Bluetooth: only a subscriber is notified, and in the end the client shows the
  latest temperature.

Hard behaviour: the code uses **no lock at all**. Buffers are shared between
tasks of priorities 0, 1 and 8 and interrupts; the two turns and the U-turn
busy-wait at the highest priority; the queues are created by whichever side
comes first; sends do not wait and results are ignored; interrupts allocate
memory that nothing frees; a reading does not wait for what it reads. The list
of hazards, each with its line and the properties that cover it, is in
`PROJECT.json`.

## 2. Modules

| Module | What it is |
|---|---|
| `CarMotion` | abstract specification: how the car moves, seen from outside |
| `Motor` | the motor task, its mailbox, wheels and notch counters |
| `MotorProofs` | theorems about `Motor` |
| `LineSensor` | the `detectLines` task and its queue |
| `RobotCar` | composition: line sensor, queue, IR receiver, web buffer, `Motor` |
| `RobotCarProofs` | theorems about `RobotCar` and `QueueBoot` |
| `QueueBoot` | who creates the queue of a sensor |
| `Odometry` | the encoders' edges, the distances, the mapping thread |
| `OdometryProofs` | theorems about `Odometry` |
| `Maze` | the grid of the maze search and what its mazes have in common |
| `Exploration` | abstract specification of a search of a maze |
| `MazeEntrance` | where the mazes of the source are entered |
| `MazeSearch` | `performBFS` and `printLinkedList` of the maze program |
| `MazeProofs` | theorems about `MazeSearch` |
| `Ultrasonic` | echo interrupt, `getPulse`, moving average |
| `Obstacle` | the task `ultrasonic_main`, its queue and receiver; extends `Ultrasonic` |
| `ObstacleProofs` | theorems about both |
| `Code39` | the table of characters, and tracks with bar codes |
| `BarWindow` | the window of ten bars and their widths |
| `BarWindowProofs` | lemmas about both: what the window holds, and when it is a character |
| `BarcodeReader` | ADC interrupt, task, receiver, page and heap |
| `BarcodeReaderProofs` | theorems about `BarcodeReader` |
| `BarcodeBackup` | the earlier reader of `driver/irline` |
| `IrDebounce` | the debounced line sensor of `driver/irline` |
| `Compass` | the readings of the magnetometer |
| `TemperatureLink` | Bluetooth client and server |
| `Bench` | `QueueBoot`, `IrDebounce`, `BarcodeBackup`, `Compass`, `TemperatureLink` side by side |
| `BenchProofs` | theorems about the last four |
| `MCMotor`, `MCRobotCar`, `MCQueueBoot`, `MCOdometry`, `MCMazeSearch`, `MCMazeEntrance`, `MCObstacle`, `MCBarcode`, `MCBench` | constants for TLC |

### Motor

The unit of atomicity is the code between two points at which another context
can change what the task reads: `vTaskDelay` and `sleep_ms` (with
`configSUPPORT_PICO_TIME_INTEROP` the latter blocks the task as well), and the
tests of a busy-wait. `mPc` names the point:

| `mPc` | code | left by |
|---|---|---|
| `delay` | `vTaskDelay(100)`, motor.c:300 | `ReactTurn`, `ReactStop`, `ReactUTurn`, `Cruise` |
| `back` | `vTaskDelay(500)`, motor.c:131/161 | `Turn` |
| `turn` | busy-wait, motor.c:142/172 | `EndTurn` |
| `halt` | `sleep_ms(800)`, motor.c:191 | `Spin` |
| `spin` | busy-wait, motor.c:205 | `EndSpin` |
| `settle` | delay, motor.c:153/183/216 | `Finish` |

`turn_left` and `turn_right` are mirror images; one set of actions stands for
both. What differs is written down once for each place in the code: `turn_pwm`
for the levels, `reset_side` for the wheel whose counter is zeroed,
`watched_side` for the one the busy-wait tests. That the three belong together
is not built in; it is what the properties say. `turned` is history: the notches
that the wheel outside of the manoeuvre has made since it began to turn. `pwm`
keeps which of the three levels a channel has and `dir` what the direction pins
say; the PID arithmetic is left out, since `move_straight` overwrites its result
in the same step. `u_turn` clears the flag a moment before its caller does, in
the same step.

The mailbox `motor_command` is written by `snprintf` from tasks that the motor
task preempts, so a write has two steps (`WriteHead`, `WriteRest`) and the
buffer two pieces. The command strings differ in their first character, so
the first piece stands for it and the second for the rest. Emptying the buffer
stores a terminator in front and leaves the rest: `clear_command`. Two writers
may interleave. More than two pieces would only add strings that equal no
command. The tasks that write have priority 0 and do not run during a
busy-wait; the interrupt `Notch` does.

`CarMotion` has two variables: the manoeuvre under way and how each wheel
turns. `Motor!Movement` computes the latter from pins and levels. `Implements`
says that the controller implements it, fairness included.

### LineSensor, RobotCar

`Move` changes what is under the sensors at any time. A pass of `detectLines`
is two actions, as another task or the car may move between the readings.
`sensor`, `prev_sensor`, the test and the send are those of ir.c:142-172. The
queue is a sequence; a send to a full queue changes nothing but the history.

`RobotCar` has the variables of both and its own for the receiver: `Receive`,
`set_ir_motor_command` (the web page's copy), then the two steps of the write.
It takes the actions of `Motor` and `LineSensor` as they are (`INSTANCE`) and
adds the priorities: `RecvTask` and `LineTask` run only outside the
busy-waits. `recvId`, `boxId`, `accepted` and `attempts` are history: they
number the commands.

### QueueBoot

The accesses to a handle by a sensor's task and a receiver, one per step. The
line sensor creates its queue directly, the barcode reader through its handler
and stores the result a second time (`ViaHandler`). `AllRunning` lets the
model go on when all tasks are in their loops. `apart` is history: the channels
of which one task was in its loop before the other looked.

### Odometry

`Rise` and `Fall` are the wheel; the GPIO latches an edge of each kind until
`encoder_callback` (one step: nothing interrupts it) takes them together. If
both are there it counts the notch and leaves the distance alone, as encoder.c
does. Nothing says where the disc stands at the start: either pin may be high,
and then the first edge is a fall (`pinAtStart`). The mapping thread reads the
two distances (`GetLeft`, `GetRight`), compares, and stores the two zeros of
`reset_distance(-1)` (`ResetLeft`, `ResetRight`): five steps with the interrupt
between any two.

Distances are counted in falling edges of 0.9 cm: `(l + r) / 2 >= 17.2` is `l +
r >= BlockEdges` with 39 edges (rounding of floats is left out; 39 * 0.9 is 0.7
above 34.4, far more than sums of so few terms can lose). Pulse times and speed
are left out: only the PID functions read them. The thread's first statement
stores through `robot`, a pointer that was never set; that it does no harm is
assumed.

### MazeSearch

`src/MappingAlgorithm.c` is a sequential program of its own. A step is one turn
of the loop over the four directions (`Discover`, `Skip`) or the removal of a
cell from the queue with the `goTo` that follows (`Dequeue`). The array `queue`
is never reused, so a `Cell` is its index there: `queue[n]` is its position and
`link[n]` its four pointers, 0 for NULL. The program's `visited` field is only
written. The robot, its `curPos` and `prevPos` always have the same position;
`curPos` is not a cell of the queue. The mazes are literals in the source, two
of them. `MazesAssumption` only says that there is a path in the first row;
`EntranceAssumption`, in a module of its own, that the first one there is
(0, 3), as in both. Without it `setStartCell` and the literal of line 524
disagree (the run `maze_entrance`). `printLinkedList`, which follows the links
to the right and, where there is none, down, is an action per turn of its loop.

`Exploration` only says that path cells beside reached ones are reached until
none is left. `Implements` says that the search does that, to the end.

### Ultrasonic, Obstacle

`getPulse` triggers the sensor and reads the two time stamps at once; the
interrupt that stores them comes later, or between the reads if the task was
held up. `Trigger`, `ReadStamp` (in either order, which C leaves open) and
`Detect` are the task, `EchoRise`, `EchoFall` and `EchoMerged` the interrupt,
`NoEcho` a sensor that does not answer. Time is counted in units of 58 us, in
which an echo is as long as the distance is in cm; trigger `k` is at
`k * Period` and its echo over by the next, since the longest lasts 38 ms and a
period is 100 ms. A difference of stamps that is negative becomes what the
conversions to `uint64_t` and `uint16_t` make of it (`getCm`). `Detect` is the
whole rest of a turn of the loop: `calculateMovingAverage`, the comparison, the
flag, the send. All messages are alike, so the queue is their number.
`recv_ultrasonic` takes them out; what it then writes is a write of `Motor`'s
second writer.

### Code39, BarWindow, BarcodeReader

`Code39` has the table of `compareTwoArray` as sets of wide bars, in the order
in which it is searched, and the tracks: stretches of black and white, with
letters between asterisks, met in either direction (external). `isTrack` says
what they are, `wellPrinted` what they must be like to be read at all: wide bars
are three units of 10 ms longer than narrow ones, or the average does not tell
them apart; at most one stray mark comes first, and it and the white after it
are so long that all that follows looks narrow beside them, or the window that
begins there may look like a character. Both are assumptions about the world
(`TracksAssumption`, `PrintAssumption`), under which the code reads every track.
An action `Edge`
is a change of colour seen by the ADC interrupt: it ends the newest bar, opens
the next (`BarWindow!nextBar`) and, when ten are there, compares the first nine
with the table. Their wide ones are those not shorter than the average
(`sortBarType`). As the table is searched in both directions at once, of two
characters that mirror each other only the first is ever read, for instance P
for an asterisk; `readAs` lists these: U to Z and the asterisk are never read
as themselves.

The task `barcodeLaunch` looks at `barcodeRead`, copies it and clears it a byte
at a time (`Compare`, `Copy`, `Store`), with the interrupt between any two. The
receiver writes the page's buffer byte by byte, up to a terminator, and the web
server reads it in an interrupt. Memory is counted in blocks: `blocksNeeded` is
what a comparison has allocated at most at a time, the string of the window
included, and `blocksLost` what it does not free; `get_maze_text` is what a
request of the page does. When there are not as many as needed the program
stops, as `malloc` of the SDK panics.

### The programs beside the firmware

`BarcodeBackup` uses the same window with the earlier comparison, one direction
only, and a task that polls without a delay. `IrDebounce` has the GPIO's latched
edges, the alarm of 100 ms that carries them, and the task that shows a colour.
`Compass` reads each value as two registers in either order while the sensor
stores new samples, and keeps the arithmetic: two's complement, and the filter,
whose state is always passed as 0. `TemperatureLink` has one action per event
handled by `client.c`, `server.c` and `server_common.c`; BTstack and the radio
are external: a connection has a number, each side sees it until the event of
its end, the packets of the server come in order, and an operation, a
connection or a set-up may fail. These four share nothing; `Bench` puts them
and `QueueBoot` side by side, and `program` says which of them is running.

## 3. Runs

| Run | Instance | Result |
|---|---|---|
| `motor` | 2 writers, all 4 commands, limits 1 and 2, counts to 3, 4 writes | pass |
| `motor_lost_command` | the IR receiver as only writer, 2 writes, the code's limits 4 and 27, counts to 28 | finding |
| `robotcar` | queue of 1, 4 commands sent, limit 0 | pass |
| `queueboot_split` | both channels | finding |
| `odometry` | blocks of 3 edges, wheels of at most 3, either level at the start | pass |
| `maze` | all mazes of 4 rows and columns entered at (0, 3) | pass |
| `maze_entrance` | all mazes of 2 rows and 5 columns | finding |
| `obstacle` | the code's numbers, echoes of 10, 14 and 460 cm, 5 readings, queue of 1 | pass |
| `obstacle_spam` | the same | finding |
| `barcode` | all letters both ways, stray marks, pairs, three in a row; queue of 1, 98 blocks, 1 request | pass |
| `barcode_letters` | the same | finding |
| `bench` | both channels; 5 edges; all letters forward, pairs after a stray mark; 2 axes of 5 values; 3 faults, 3 measurements | pass |

**motor.** `BusyWaitOnDrivenWheel`, `PollsRunningAhead`, `ManoeuvreIsFull`,
`OneTurnPerCommand`, `OthersRun` and `Implements` say what section 1 asks of the
motor. `ManoeuvreIsFull` compares the end of a busy-wait with what the wheel has
really done: a counter that is not zeroed, or the other wheel's, ends it early,
since both wheels have counts of earlier manoeuvres, of driving ahead and of
backing off. Two writers with both kinds of commands reach every mixture of two
commands in the mailbox; four writes allow a write during a manoeuvre, one
across its end, and one after. A limit of 1 makes a count of 0, of exactly the
limit and above it different; a larger limit only adds counts between.

**robotcar.** A queue of 1 (5 in the code) is full while a command is in the
receiver's hands and a further one is dropped. `TurnsHaveCauses` and
`BoundedStaleness` relate both ends of the path: no manoeuvre without a command
of its own, and the command acted on is at most `QueueLen + 1` behind the latest
one accepted (four commands are enough to reach the bound). `PageNotBehindMotor`
relies on the order of two calls. `LatestCommandMatchesSensors` holds although
half a pass acts on a stale reading: the second half corrects it. The limit of 0
makes a turn end at its first notch, so turns are short and sequences of them
long. `ImplementsMotor` shows that the receiver at priority 0 is a writer as
`Motor` assumes one: the results about `Motor` hold in the car.
`AcceptedIsDelivered` and `CommandStartsTurn` are liveness of the whole path.

**odometry.** Edges are lost: merged ones, and those counted between the
thread's read and its store of zero. `BlocksAreDriven` says that the loss is on
the safe side, no edge counts for two blocks; `DistanceNotAheadOfNotches` that a
merged pair never adds a distance without its notch. A wheel that starts with its
pin high is the exception: its first falling edge has no notch, and the distance
may be ahead by this one. `BlockIsReported` that the
thread still sees each block although it reads the wheels at different times. A
block of 3 edges can be reached by one wheel alone or by both in any mixture, and
3 edges of each wheel make two blocks, or one with edges left over.

**maze.** Grids of 4 by 4 have loops, ways of equal length, dead ends and
unconnected parts, and paths along every border. `EnqueuedOnce`: the queue's
array is large enough. `LinksMutual`: no pointer is replaced, in any maze with
loops. `BreadthFirst`: each cell's way back over the links is a shortest one.
It needs no second definition of distance: if the lengths of the ways back of
neighbours differ by at most one, no way can be shorter. `Implements` (with its
fairness) says that exactly what can be reached is. `PrintingEnds`: following
links that all go both ways comes to an end, as none is followed to the left or
up. The program stops, so deadlock is not checked.

**obstacle.** `ReadingIsEchoBefore`: undisturbed, a reading is the echo before
its trigger, and 0 if that timed out, but never made of two echoes.
`UTurnHasCause`, `ObstacleReported`, `SendsAlternate` say what the detector
makes of the readings: it needs one at most `Near`, it cannot miss four, the
reading after one that sent never sends. Three distances are an obstacle,
something just out of range, and an echo that times out; five readings fill the
window of four and push one out.

**barcode.** `DecodesTrack` is about every position of the window: none that
begins within a character, in the white between two or at a stray mark looks
like a character, and each is read as `readAs` says. `NoBarcodeTwice`,
`MessageIsBarcode`, `PageShowsBarcode` are about the race of interrupt and task:
the first holds always, the second says what a message is if no character came
while it was made. The third takes messages as they are, those a character came
into included: whenever the web server looks, the page is what the receiver has
stored so far of one message, over another one or nothing. With such a message
the page may show, while it is written, a text that was never sent, and the
track of three letters reaches this; of two messages no character came into it
always shows one. `MemoryPerBarcode` bounds what is lost, and
`LoneBarcodeReachesPage` is the way from the track to the page. 98 blocks are
just enough for a bar code after a stray mark and a request, with one more that
a comparison has for a while, and not for two bar codes, so that the program
also stops. Pairs of letters fill the queue of 1. A car at the end of its track
changes nothing any more: deadlock is not checked.

**bench.** The start-up of the queues, `HandlesAreQueues`: no order of the steps
makes a task use a null handle. `StartedApartTheyShare`: if one task is in its
loop before the other looks, they share a queue for good. `ShownInTheEnd`
excepts an edge that was ignored, and that exception is necessary: nothing
corrects the colour then. `PrintsWhatIsThere` and `LoneBarcodePrinted` are those
of the earlier reader; that it drops what begins with a letter, at once and byte
by byte, makes the second one a race. Both are about tracks that are met
forward. The earlier reader has no mirrored comparison; of a track met backward
it matches the asterisks' mirror images and some letters, after a letter it does
not know the window moves on by a bar at a time, and what it matches next may be
part of one letter and part of the next: from C and C backward it prints three
asterisks. `OffByALowByte` is about values torn between two samples; the values
include both signs, and the two ends of a high byte, 4096 and 4351, from which a
value comes that is off by all of 256. `SubscriberIsConnected` and
`LatestTemperatureShown` hold with three faults at any point: lost connections
noticed by either side first, failing operations, failing set-ups. The latter
excepts two errors the client does not look at (client.c:134 and 199).

Fairness. The maze program is sequential: its next step comes. The delays of the
motor task expire and nothing has a higher priority, so its steps are weakly
fair. A driven wheel turns, so its notches come: weak fairness of `DrivenNotch`.
This is about the world and not the code; a stalled wheel does block the car.
Tasks of priority 0 share the processor by time slices whenever the motor task
is blocked; as it becomes busy again and again they are enabled infinitely
often, not continuously, hence strong fairness for them. It is justified because
each delay of the motor task is 100 ticks or more, and each step of theirs a
fraction of one. The mapping thread has the motor task's priority, 8, and
`FreeRTOSConfig.h` leaves time slicing on, so it runs even during a busy-wait:
weak fairness of `MappingThread`. In `BarcodeReader` and `BarcodeBackup` the
tasks have time slices of their own, and `<>(edges = stretches(track))` says
that the car drives on to the end of its track (or the program has stopped);
this is about the car, and only the two properties about a bar code that is
alone on it use it. In `IrDebounce` interrupts are served, alarms expire and the
task runs. In `TemperatureLink` BTstack delivers pending events on each side and
comes to notice that a connection has ended; faults are not fair, and there are
finitely many. `Obstacle`, `QueueBoot` and `Compass` assume nothing.

Bounds. `MaxNotch` stops the counters above the limits, `MaxWrites` and
`MaxSends` bound the history counters and so the number of commands in a
behaviour; `MaxPolls`, `MaxRequests`, `MaxEdges`, `MaxFaults` count readings or
measurements, requests, edges and faults. They are guards of environment actions
only: of an interrupt, of a new call of `set_motor_command`, of the car leaving
the line, of the clock that starts the next reading, of the radio.

Every property has a mutant: a definition with a plausible bug, marked
`Mutant of` in the modules and listed in `PROJECT.json`, under which TLC finds
the property violated.

### Findings

* `motor_lost_command`: a command that arrives during a manoeuvre is erased at
  its end. The line sensor sends on changes only, so nothing repeats it.
* `queueboot_split`: the two ends of a queue can create one each. It takes an
  unlucky schedule: the sensor's task must be held up between its test and its
  store while the receiver's first 100 ticks pass, as the web server's
  initialisation at a higher priority may do.
* `obstacle_spam`: the branch that is to prevent repetition (obstacle.c:138)
  is also taken when the flag suppresses a command, and clears the flag; an
  obstacle that stays is reported on every second reading.
* `barcode_letters`: the table has the letters from A to Z, but a U that is met
  forward is read as K, a V as R, W as Q, X as O, Y as N and Z as T: each is the
  mirror image of an entry that comes before it, and entries are compared in both
  directions. Of a bar code met backward the reader cannot tell them either.
* `maze_entrance`: `setStartCell` looks for the entrance, but `main` marks (0, 3)
  as visited, whatever was found. A maze with another entrance, which README.md
  of the repository invites one to enter, has it queued a second time.

One observation has no run of its own: the turns compute "the notch count needed
to turn by 'degree'" (motor.c:138), which is 18, and do not use it: the loop
ends at the fifth notch, by a literal 4 (motor.c:144). Which of the two is meant
the code does not tell; `TurnLimit` is the literal, and the proofs hold for any
limit.

## 4. Proofs

`MotorProofs` proves, for every set of writers, every assignment of commands to
them and all limits and bounds (assumptions `SendsAssumption` and
`BoundsAssumption`, which only say that the commands are among the four and the
limits are natural numbers below the bound):

* `TypeCorrect`: `SafetySpec => []TypeOK`;
* `InvariantHolds`: `SafetySpec => []MotorInv`;
* `AtMostOneTurn`, `WaitsOnDrivenWheel`, `PollsAhead`, `ManoeuvresAreFull`: the
  safety properties of the run `motor`, as consequences;
* `ImplementsSafety`: every behaviour of the controller is, under the
  refinement mapping, one of `CarMotion` without its fairness.

The properties are not inductive: that the wheel a busy-wait watches is driven
depends on what `Turn` and `Spin` find and on `watched_side` matching
`turn_pwm`; that a manoeuvre is full depends on the counter that is watched
being the one that was zeroed, and on what it has counted since; that the car
runs ahead when it polls depends on every exit from a manoeuvre. `MotorInv`
therefore ties flag, manoeuvre (`PhaseInv`), pins and levels (`WheelInv`) to the
phase, and accounts for writes (`CountInv`): a mailbox that is not empty when it
is polled stands for a write that has not started a manoeuvre. Each conjunct is
preserved action by action. The refinement uses one lemma, `Movements`, on how
the wheels turn under each setting.

`OdometryProofs` proves, for every distance to a block and every bound on the
wheels (`BoundsAssumption`):

* `OdometryInvariant`: `SafetySpec => []OdometryInv`;
* `NoPhantomBlocks`, `NotchesLead`: `BlocksAreDriven` and
  `DistanceNotAheadOfNotches`.

Neither is inductive. For the first one has to know that the thread's stale
readings are at most the distances (only the thread makes these smaller), and
that after the first store of zero the left wheel's share has been spent but
the right wheel's has not (`ThreadInv`); for the second, which edges are
latched and not counted at each position of the disc, and at which level it
started (`EdgeInv`).

`MazeProofs` proves, for grids of every size and every maze that satisfies
`EntranceAssumption`:

* `SearchInvariant`: `SafetySpec => []SearchInv`;
* `QueueSuffices`, `TwoWayList`, `NothingOverlooked`: `EnqueuedOnce`,
  `LinksMutual`, and `DoneIsClosed` (when the search ends no path beside a visited
  cell is left); the first by counting the cells of the grid;
* `ShortestWays`: `BreadthFirst`;
* `ImplementsExploration`: the safety part of `Implements`.

`SearchInv` says that the queue holds the visited cells, each once, and what has
been looked at so far: all directions of the cells taken out and the first ones
of the current cell. That a link is not overwritten follows: the cell it leads
to would be the new one and so visited already.

The lengths of the ways back are defined by recursion, and what such a function
is cannot be derived from its definition by induction here. But the search builds
the queue cell by cell, so that a function with this recursion is there and that
every such function grows along the queue, by one at most from the current cell
to the last, are themselves invariant (`DistanceInv`): a new cell extends the
function by one value. It also says how far what has been looked at is at most,
which `BreadthFirst` says of all neighbours in the end.

`RobotCarProofs` proves, for queues of every length and all limits
(`CarAssumption`):

* `EveryTurnHasItsCommand`, `StalenessBound`, `PageKeepsUp`, `CommandMatches`,
  `OnePerPass`: the safety properties of the run `robotcar`;
* `ImplementsMotorSafety`: the safety part of `ImplementsMotor`.

The inductive invariant has four parts: what half a pass leaves of the readings
(`LineInv`), that the numbers of the commands in the receiver's hands and in the
mailbox follow from the length of the queue (`QueueInv`), what the receiver
holds at each of its steps (`RecvInv`), and that a mailbox that is not empty when
it is polled stands for a command without a manoeuvre (`TurnInv`). Each is
proved task by task; of the motor's steps it only uses what they do to the
mailbox and to `turns` (`MotorEffect`).

It also proves `NoNullHandle` and `LateStarterShares` for any set of
channels: `HandlesAreQueues` and `StartedApartTheyShare`. `HandleInv` says that
whatever is stored anywhere exists and is not NULL past the store, `AloneInv`
that a task has the handle itself in its hands as long as the other has not
looked. For the second theorem, `ApartInv` says of each channel in `apart` what
the task that came second finds and takes at each of its steps (`Second`).

`ObstacleProofs` proves, for every period, lag, timeout, set of distances and
limit (`TimesAssumption`, `NearAssumption`): `ReadingIsOld`, `TurnsHaveReadings`,
`ObstaclesAreSeen`, `AlternateSends`, that is all four properties of the run
`obstacle`. It needs that the stamps differ by the last echo except during one
(`EchoInv`), what the task has in its hands between trigger and result
(`PulseInv`), that the running sum, from which readings are subtracted that were
stored four turns ago, is the sum of the window (`SumIsWindow`), which of the
window's readings are those counted as close (`WindowInv`), and how flag and
sends belong together (`DetectorInv`).

`BarcodeReaderProofs` proves, for all tracks that can be read, lengths of the
queue and sizes of the heap, the five safety properties of the run `barcode`:

* `CharactersInOrder` (`DecodesTrack`). `WindowInv` says that the window holds the
  latest stretches of the track and that its index follows from how many changes
  of colour there were. What it holds whenever it is full is then one of three
  things: a character, which is found as the first entry of the table that is it
  or its mirror image; a stray mark, beside which no bar looks wide where the
  table wants one; or a window that begins in white and is not compared.
  `BarWindowProofs` has the lemmas: `WindowMoves` is the step of the window,
  `Completes` which changes of colour complete what, `StarPlaces` where the
  asterisks are. That one entry at most matches is decided on the table.
* `MessagesShareNothing` (`NoBarcodeTwice`). The argument counts: a byte of
  `barcodeRead` that is not empty stands for a character no message has used,
  and so does a byte in which the task has seen one, wherever the interrupt has
  moved it since (`UnusedInv`). A character that arrives moves the bytes by one
  and is one more; a cleared byte is no longer counted; what is moved into a byte
  between two clears has not been used.
* `MessagesAreBarcodes` (`MessageIsBarcode`). Each byte with a character in it is
  the one at its place among the last three of `decoded` (`PlaceInv`). The
  asterisks that the task stores itself are told from it, as an asterisk is never
  read as one: P is its mirror image and comes first in the table.
* `PageIsTwoMessages` (`PageShowsBarcode`). The receiver's copy is one message that
  was sent, and each byte of the page that it has stored is that message's and
  each that it has not is an earlier one's, or nothing (`PageInv`, with the queue
  in between). Two messages no character came into differ in the middle byte at
  most, so that the page is one of them.
* `HeapLasts` (`MemoryPerBarcode`). A comparison that
  finds entry n of the table loses n blocks: 16 for an asterisk, 20 at most for a
  letter, which is one of the first of its pair. A stray mark costs 28, and 1 for
  the window that begins in white. `MemoryInv` adds up what the characters, the
  mark and the requests so far cost.

`BenchProofs` proves of the programs beside the firmware:

* `NotifiesOnlyTheConnected`: `SubscriberIsConnected` for every number of faults
  and measurements. The invariant adds that a write request is under way only over
  a connection the server sees, as the server takes the subscriber's handle from
  it, and that the client has an operation going only while it sees a connection,
  as the request comes from there.
* `TornByALowByte`: `OffByALowByte` for every set of samples of 16 bits and every
  number of axes. A value put together from two samples differs from the one of
  the high byte by 255 at most, and the filter adds the rounding of a division.
  The bound is 256 and is reached: a strict inequality, which is what one would
  write down first, is false.
* `PrintsBarcodes`: `PrintsWhatIsThere` for every track that can be read and is
  met forward. `ReadInv` and the lemmas of `BarWindowProofs` give one character
  after the other, `PlaceInv` the place on the track of every byte, `LookInv` what
  the task has seen or taken if no character came between. Two asterisks with one
  character between them then belong to one bar code (`BetweenStars`). Nothing is
  proved of tracks met backward, where the property does not hold (section 3).
* `SettledColourIsRight`: once no edge is latched, no alarm runs and the task has
  seen the latest value, the colour shown is the one under the sensor, unless an
  edge was ignored: `ShownInTheEnd` without its liveness.

Model-checked only: everything about liveness (`OthersRun`, the fairness in
`Implements`, `AcceptedIsDelivered`, `CommandStartsTurn`, `ImplementsMotor`,
`BlockIsReported`, the fairness in the maze's `Implements`, `PrintingEnds`,
`LoneBarcodeReachesPage`, `ShownInTheEnd`, `LoneBarcodePrinted`,
`LatestTemperatureShown`), as the prover does not do ENABLED. Every safety
property of a passing run is proved.

## 5. Not modelled

* Motor: the PID functions. They set levels that `move_straight` overwrites in
  the same step, from speeds that only they read. Set-up of pins, PWM, ADC and
  I2C everywhere: calls in a fixed order before anything runs.
* `IRR/mapping.c`: the list of cells is filled once and not read again; what is
  beyond is commented out or not called. That the thread stores through the
  pointer `robot`, which was never set, is assumed to do no harm.
* `src/MappingAlgorithm.c`, lines 104 to 321: functions that nothing calls.
* Start-up: joining the WiFi network and starting lwIP's web server. The web
  server is an interrupt that reads buffers. The LED handler writes one pin, the
  maze handler returns NULL, and the maze's text on the page is a constant.
* Barcode: the averaging of 101 ADC samples and the comparison with the
  threshold; a stretch of colour is taken to be seen as one. Calls of `malloc`
  by an interrupt within another: what they do is up to the C library.
* Magnetometer: heading and tilt, formulas in floating point that are printed or
  commented out. `driver/magnometer` does not compile (a stray letter in line
  52).
* The other programs in `src/driver` (encoder, motor, ultrasonic, obstacle
  detection) are earlier copies of firmware code that is modelled.
* Bluetooth: LEDs, switching the stack off, and the iperf server that
  `server_with_wifi.c` adds.
* Examples and support code of the SDK (`pico_webserver`,
  `btstack_audio_pico.c`) and the generated arrays of HTML.

## 6. Plan

What is left, in this order:

1. An abstract specification of a queue between a sensor and its receiver, full
   queues and ignored results included, that `RobotCar`, `BarcodeReader` and
   `Obstacle` each implement, proved as `ImplementsSafety` is.
2. The safety core of the remaining liveness properties, as
   `SettledColourIsRight` is that of `ShownInTheEnd`: that a state in which
   nothing can happen any more is the one promised.
3. `Obstacle` and `RobotCar` composed with both receivers, if `ultrasonic_main`
   is started one day.
