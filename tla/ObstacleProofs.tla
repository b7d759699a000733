---- MODULE ObstacleProofs ----
(***************************************************************************)
(* Proofs about Obstacle, for every timing of the sensor, every set of     *)
(* distances and every range: what a reading is, and when the detector     *)
(* sends a command.                                                        *)
(***************************************************************************)
EXTENDS Obstacle, TLAPS

\* Outside the busy part of an echo, the two stamps are as far apart as the
\* last echo was long; within it, startTime is the one of this echo.
EchoInv ==
    /\ echo = "high" => time["startTime"] = rising
    /\ echo # "high" => time["endTime"] - time["startTime"] = lastEcho

\* What an undisturbed getPulse has in its hands.
PulseInv ==
    /\ uPc = "delay" => unread = {}
    /\ uPc = "read" /\ ~disturbed /\ unread = {} =>
          stamp["endTime"] - stamp["startTime"] = before
    /\ uPc = "read" /\ ~disturbed /\ unread # {} =>
          /\ echo # "high" /\ before = lastEcho
          /\ \A x \in Stamps \ unread : stamp[x] = time[x]

SensorInv == UTypeOK /\ EchoInv /\ PulseInv /\ ReadingIsEchoBefore

LEMMA RisingType ==
    ASSUME polls \in Nat
    PROVE  rising \in Nat
BY TimesAssumption DEF rising

LEMMA Times ==
    /\ Timeout \in Nat /\ 1 <= Timeout /\ Timeout < 65536
    /\ MaxPolls \in Nat
    /\ \A d \in Distances : d \in Nat
<1>1. Timeout \in 1..65535
  BY TimesAssumption DEF Modulus
<1> QED BY <1>1, TimesAssumption

LEMMA SensorInit == Init => SensorInv
<1> SUFFICES ASSUME UInit PROVE SensorInv
  BY DEF Init
<1>1. UTypeOK
  <2>1. /\ time \in [Stamps -> Nat] /\ stamp \in [Stamps -> Nat]
        /\ echo \in {"idle", "armed", "high"} /\ uPc \in {"delay", "read"}
        /\ unread \subseteq Stamps /\ disturbed \in BOOLEAN
    BY DEF UInit
  <2>2. /\ readings \in [Window -> 0..(Modulus - 1)]
        /\ index \in Window /\ count \in 0..NUM_SAMPLES /\ sum \in Nat
    BY DEF UInit, Window, NUM_SAMPLES, Modulus
  <2>3. polls \in 0..MaxPolls /\ lastEcho \in 0..(Timeout - 1) /\ before \in 0..(Timeout - 1)
    BY Times DEF UInit
  <2> QED BY <2>1, <2>2, <2>3 DEF UTypeOK
<1>2. EchoInv /\ PulseInv /\ ReadingIsEchoBefore
  BY DEF UInit, EchoInv, PulseInv, ReadingIsEchoBefore, Stamps
<1> QED BY <1>1, <1>2 DEF SensorInv

\* The echo: what is read before and after its edges.
LEMMA EchoStep == SensorInv /\ Echo => SensorInv'
<1> SUFFICES ASSUME SensorInv, Echo PROVE SensorInv'
  OBVIOUS
<1>a. UNCHANGED <<pollVars, averageVars>>
  BY DEF Echo, EchoRise, EchoFall, EchoMerged, NoEcho
<1>b. polls \in Nat /\ rising \in Nat /\ rising' = rising
  <2>1. polls \in Nat
    BY Times DEF SensorInv, UTypeOK
  <2> QED BY <1>a, <2>1, RisingType DEF rising, pollVars
<1>c. \/ disturbed' = (disturbed \/ unread # {})
      \/ disturbed' = disturbed /\ echo' = "idle" /\ UNCHANGED <<time, lastEcho>>
  BY DEF Echo, EchoRise, EchoFall, EchoMerged, NoEcho, disturb
<1>d. disturbed \in BOOLEAN
  BY DEF SensorInv, UTypeOK
<1>0. /\ UNCHANGED <<pollVars, averageVars>> /\ polls \in Nat /\ rising \in Nat /\ rising' = rising
      /\ disturbed' \in BOOLEAN
      /\ unread # {} => disturbed' \/ (echo' # "high" /\ lastEcho' = lastEcho /\ time' = time)
      /\ unread = {} => disturbed' = disturbed
      /\ disturbed => disturbed'
  <2>1. CASE disturbed' = (disturbed \/ unread # {})
    BY <1>a, <1>b, <1>d, <2>1, Zenon
  <2>2. CASE disturbed' = disturbed /\ echo' = "idle" /\ UNCHANGED <<time, lastEcho>>
    BY <1>a, <1>b, <1>d, <2>2, Zenon
  <2> QED BY <1>c, <2>1, <2>2
<1>1. time' \in [Stamps -> Nat] /\ echo' \in {"idle", "armed", "high"}
      /\ lastEcho' \in 0..(Timeout - 1) /\ EchoInv'
  <2>0. /\ time \in [Stamps -> Nat] /\ lastEcho \in 0..(Timeout - 1)
        /\ Timeout \in Nat /\ Timeout >= 1
        /\ \A d \in Distances : d \in Nat
    BY Times DEF SensorInv, UTypeOK
  <2>1. CASE EchoRise
    BY <1>0, <2>0, <2>1 DEF EchoRise, EchoInv, Stamps
  <2>2. CASE EchoFall
    <3>1. time["startTime"] = rising /\ echo' = "idle"
      BY <2>2 DEF EchoFall, SensorInv, EchoInv
    <3>2. PICK d \in Distances :
             /\ time' = IF timedOut(rising + d) THEN [x \in Stamps |-> rising + d]
                        ELSE [time EXCEPT !["endTime"] = rising + d]
             /\ lastEcho' = IF timedOut(rising + d) THEN 0 ELSE d
      BY <2>2, Zenon DEF EchoFall
    <3>a. d \in Nat /\ rising + d \in Nat /\ (rising + d) - rising = d
      BY <1>0, <2>0
    <3>d. timedOut(rising + d) <=> d >= Timeout
      <4>1. timedOut(rising + d) <=> (rising + d) - rising >= Timeout
        BY <3>1, Zenon DEF timedOut
      <4> QED BY <3>a, <4>1, Zenon
    <3>b. time' = IF d >= Timeout THEN [x \in Stamps |-> rising + d]
                  ELSE [time EXCEPT !["endTime"] = rising + d]
      BY <3>2, <3>d
    <3>c. lastEcho' = IF d >= Timeout THEN 0 ELSE d
      BY <3>2, <3>d
    <3>3. CASE d >= Timeout
      <4>1. time' = [x \in Stamps |-> rising + d] /\ lastEcho' = 0
        BY <3>b, <3>c, <3>3
      <4>2. time' \in [Stamps -> Nat] /\ time'["endTime"] = time'["startTime"]
        BY <3>a, <4>1 DEF Stamps
      <4>3. time'["endTime"] - time'["startTime"] = lastEcho'
        BY <4>1, <4>2 DEF Stamps
      <4> QED BY <2>0, <3>1, <4>1, <4>2, <4>3 DEF EchoInv
    <3>4. CASE d < Timeout
      <4>1. ~(d >= Timeout)
        BY <2>0, <3>4, <3>a
      <4>2. /\ time' \in [Stamps -> Nat] /\ lastEcho' = d
            /\ time'["endTime"] = rising + d /\ time'["startTime"] = rising
        BY <1>0, <2>0, <3>1, <3>a, <3>b, <3>c, <4>1 DEF Stamps
      <4>3. lastEcho' \in 0..(Timeout - 1) /\ time'["endTime"] - time'["startTime"] = lastEcho'
        <5>1. lastEcho' \in Nat /\ lastEcho' < Timeout
          BY <3>a, <3>4, <4>2
        <5>2. time'["endTime"] - time'["startTime"] = d
          BY <3>a, <4>2 DEF Stamps
        <5> QED BY <2>0, <4>2, <5>1, <5>2
      <4> QED BY <3>1, <4>2, <4>3 DEF EchoInv
    <3> QED BY <2>0, <3>3, <3>4, <3>a
  <2>3. CASE EchoMerged
    BY <1>0, <2>0, <2>3 DEF EchoMerged, EchoInv, Stamps
  <2>4. CASE NoEcho
    BY <2>0, <2>4 DEF NoEcho, EchoInv, SensorInv, Stamps
  <2> QED BY <2>1, <2>2, <2>3, <2>4 DEF Echo
<1>2. UTypeOK'
  BY <1>0, <1>1 DEF SensorInv, UTypeOK, pollVars, averageVars
<1>3. PulseInv'
  BY <1>0 DEF SensorInv, PulseInv, pollVars
<1>4. ReadingIsEchoBefore'
  BY <1>0 DEF SensorInv, PulseInv, ReadingIsEchoBefore, latest, pollVars, averageVars
<1> QED BY <1>1, <1>2, <1>3, <1>4 DEF SensorInv

LEMMA TriggerStep == SensorInv /\ Trigger => SensorInv'
<1> SUFFICES ASSUME SensorInv, Trigger PROVE SensorInv'
  OBVIOUS
<1>1. /\ uPc' = "read" /\ echo = "idle" /\ echo' = "armed" /\ polls' = polls + 1
      /\ polls < MaxPolls /\ unread' = Stamps /\ before' = lastEcho /\ disturbed' = FALSE
      /\ UNCHANGED <<time, stamp, lastEcho, averageVars>>
  BY DEF Trigger
<1>2. UTypeOK'
  <2>1. polls' \in 0..MaxPolls
    <3>1. polls \in 0..MaxPolls /\ MaxPolls \in Nat
      BY Times DEF SensorInv, UTypeOK
    <3> QED BY <1>1, <3>1
  <2>2. UNCHANGED <<time, stamp, readings, index, count, sum, lastEcho>>
    BY <1>1 DEF averageVars
  <2> QED BY <1>1, <2>1, <2>2 DEF SensorInv, UTypeOK
<1>3. EchoInv'
  BY <1>1 DEF SensorInv, EchoInv
<1>4. PulseInv' /\ ReadingIsEchoBefore'
  BY <1>1 DEF PulseInv, ReadingIsEchoBefore, Stamps
<1> QED BY <1>2, <1>3, <1>4 DEF SensorInv

LEMMA StampStep ==
    ASSUME SensorInv, NEW x \in Stamps, ReadStamp(x)
    PROVE  SensorInv'
<1>1. /\ x \in unread /\ unread' = unread \ {x}
      /\ stamp' = [stamp EXCEPT ![x] = time[x]]
      /\ UNCHANGED <<uPc, polls, before, echoVars, averageVars>>
  BY DEF ReadStamp
<1>2. UTypeOK'
  BY <1>1 DEF SensorInv, UTypeOK, averageVars, echoVars
<1>3. EchoInv' /\ ReadingIsEchoBefore'
  BY <1>1 DEF SensorInv, EchoInv, ReadingIsEchoBefore, latest, rising, echoVars, averageVars
<1>4. PulseInv'
  <2>1. uPc = "read"
    <3>1. uPc \in {"delay", "read"} /\ (uPc = "delay" => unread = {})
      BY DEF SensorInv, UTypeOK, PulseInv
    <3> QED BY <1>1, <3>1
  <2>2. stamp \in [Stamps -> Nat] /\ time \in [Stamps -> Nat]
    BY DEF SensorInv, UTypeOK
  <2>3. SUFFICES ASSUME ~disturbed
                 PROVE  IF unread' = {} THEN stamp'["endTime"] - stamp'["startTime"] = before
                        ELSE /\ echo # "high" /\ before = lastEcho
                             /\ \A y \in Stamps \ unread' : stamp'[y] = time[y]
    BY <1>1, <2>1 DEF PulseInv, echoVars
  <2>4. /\ echo # "high" /\ before = lastEcho
        /\ \A y \in Stamps \ unread : stamp[y] = time[y]
    BY <1>1, <2>1, <2>3 DEF SensorInv, PulseInv
  <2>5. \A y \in Stamps \ unread' : stamp'[y] = time[y]
    BY <1>1, <2>2, <2>4
  <2>6. CASE unread' = {}
    <3>1. stamp'["endTime"] = time["endTime"] /\ stamp'["startTime"] = time["startTime"]
      BY <2>5, <2>6 DEF Stamps
    <3>2. time["endTime"] - time["startTime"] = lastEcho
      BY <2>4 DEF SensorInv, EchoInv
    <3> QED BY <2>4, <2>6, <3>1, <3>2
  <2> QED BY <2>4, <2>5, <2>6
<1> QED BY <1>2, <1>3, <1>4 DEF SensorInv

----------------------------------------------------------------------------
\* The window.  Its four places are written out, as index goes round them.

\* The place of the reading k turns ago.
ago(k) == (index + 3 - k) % NUM_SAMPLES

WindowInv ==
    /\ SumIsWindow
    /\ \A k \in Window : k < close => inRange(readings[ago(k)])

\* The detector: a turn of the loop that is complete ...
complete == IF uPc = "read" THEN polls - 1 ELSE polls

DetectorInv ==
    /\ obstacleDetected \in BOOLEAN
    /\ sends \in Nat /\ lastSend \in Nat /\ close \in Nat /\ polls \in Nat
    /\ uPc \in {"delay", "read"}
    /\ uPc = "read" => polls > 0
    /\ lastSend <= complete
    /\ obstacleDetected => lastSend = complete
    /\ ~obstacleDetected /\ sends > 0 => lastSend < complete

ObstacleInv ==
    /\ SensorInv /\ WindowInv /\ DetectorInv
    /\ UTurnHasCause /\ ObstacleReported

LEMMA Remainder ==
    ASSUME NEW w \in Int, NEW m \in Nat, m > 0
    PROVE  w % m \in 0..(m - 1)
OBVIOUS

LEMMA getCmType == ASSUME SensorInv PROVE getCm \in 0..(Modulus - 1)
<1>1. stamp["endTime"] \in Nat /\ stamp["startTime"] \in Nat
  BY DEF SensorInv, UTypeOK, Stamps
<1>2. PICK wide \in Int : getCm = wide % Modulus
  BY <1>1 DEF getCm, Wrap
<1>3. Modulus \in Nat /\ Modulus > 0
  BY DEF Modulus
<1>4. wide % Modulus \in 0..(Modulus - 1)
  BY <1>3, Remainder
<1> QED BY <1>2, <1>4, Zenon

LEMMA FourPlaces == Window = {0, 1, 2, 3}
BY DEF Window, NUM_SAMPLES

\* The places after storing at place p, for a window of four.
LEMMA StoreAt ==
    ASSUME NEW V, NEW r \in [Window -> V], NEW p \in Window, NEW v \in V
    PROVE  /\ [r EXCEPT ![p] = v] \in [Window -> V]
           /\ [r EXCEPT ![p] = v][p] = v
           /\ \A n \in Window \ {p} : [r EXCEPT ![p] = v][n] = r[n]
OBVIOUS

\* What storing a reading does: a place is replaced, and the sum stays the sum.
LEMMA StoreEffect ==
    ASSUME UTypeOK, SumIsWindow, NEW new \in 0..(Modulus - 1), store(new)
    PROVE  /\ readings' \in [Window -> 0..(Modulus - 1)]
           /\ readings'[index] = new
           /\ \A n \in Window \ {index} : readings'[n] = readings[n]
           /\ index' \in Window
           /\ count' \in 0..NUM_SAMPLES /\ sum' \in Nat
           /\ sum' = sum - readings[index] + new
           /\ SumIsWindow'
<1>0. \A v \in 0..(Modulus - 1) : v \in Nat
  <2>1. Modulus - 1 \in Int
    BY DEF Modulus
  <2> QED BY <2>1
<1> DEFINE V == 0..(Modulus - 1)
<1>1. readings \in [Window -> V] /\ index \in Window /\ new \in V
  BY DEF UTypeOK
<1>2. \A v \in V : v \in Nat
  BY <1>0
<1>3. readings' = [readings EXCEPT ![index] = new] /\ sum' = sum - readings[index] + new
  BY DEF store
<1> HIDE DEF V
<1>4. /\ readings' \in [Window -> V] /\ readings'[index] = new
      /\ \A n \in Window \ {index} : readings'[n] = readings[n]
  BY <1>1, <1>3, StoreAt
<1>5. SumIsWindow'
  <2>1. /\ readings[0] \in Nat /\ readings[1] \in Nat /\ readings[2] \in Nat /\ readings[3] \in Nat
        /\ new \in Nat
    BY <1>1, <1>2, FourPlaces
  <2>2. sum = readings[0] + readings[1] + readings[2] + readings[3]
    BY DEF SumIsWindow
  <2>3. CASE index = 0
    <3>1. readings'[0] = new /\ readings'[1] = readings[1] /\ readings'[2] = readings[2]
          /\ readings'[3] = readings[3] /\ sum' = sum - readings[0] + new
      BY <1>3, <1>4, <2>3, FourPlaces
    <3> QED BY <2>1, <2>2, <3>1 DEF SumIsWindow
  <2>4. CASE index = 1
    <3>1. readings'[0] = readings[0] /\ readings'[1] = new /\ readings'[2] = readings[2]
          /\ readings'[3] = readings[3] /\ sum' = sum - readings[1] + new
      BY <1>3, <1>4, <2>4, FourPlaces
    <3> QED BY <2>1, <2>2, <3>1 DEF SumIsWindow
  <2>5. CASE index = 2
    <3>1. readings'[0] = readings[0] /\ readings'[1] = readings[1] /\ readings'[2] = new
          /\ readings'[3] = readings[3] /\ sum' = sum - readings[2] + new
      BY <1>3, <1>4, <2>5, FourPlaces
    <3> QED BY <2>1, <2>2, <3>1 DEF SumIsWindow
  <2>6. CASE index = 3
    <3>1. readings'[0] = readings[0] /\ readings'[1] = readings[1] /\ readings'[2] = readings[2]
          /\ readings'[3] = new /\ sum' = sum - readings[3] + new
      BY <1>3, <1>4, <2>6, FourPlaces
    <3> QED BY <2>1, <2>2, <3>1 DEF SumIsWindow
  <2> QED BY <1>1, <2>3, <2>4, <2>5, <2>6, FourPlaces
<1>6. sum' \in Nat
  <2>1. /\ readings'[0] \in Nat /\ readings'[1] \in Nat /\ readings'[2] \in Nat /\ readings'[3] \in Nat
    BY <1>2, <1>4, FourPlaces
  <2> QED BY <1>5, <2>1 DEF SumIsWindow
<1>7. index' \in Window
  <2>1. index' = (index + 1) % 4 /\ index \in {0, 1, 2, 3}
    BY <1>1, FourPlaces DEF store, NUM_SAMPLES
  <2> QED BY <2>1, FourPlaces
<1>8. count' \in 0..NUM_SAMPLES
  BY DEF UTypeOK, store, NUM_SAMPLES
<1> QED BY <1>3, <1>4, <1>5, <1>6, <1>7, <1>8 DEF V

\* The place written now is the latest reading of the next turn, and the
\* others are one turn older.
LEMMA AgoShift ==
    ASSUME index \in Window, index' = (index + 1) % NUM_SAMPLES
    PROVE  /\ ago(0)' = index
           /\ \A k \in {1, 2, 3} : ago(k)' = ago(k - 1) /\ ago(k - 1) \in Window \ {index}
           /\ (index' + 3) % NUM_SAMPLES = index
<1>1. index \in {0, 1, 2, 3} /\ index' = (index + 1) % 4
  BY FourPlaces DEF NUM_SAMPLES
<1>2. CASE index = 0
  BY <1>1, <1>2, FourPlaces DEF ago, NUM_SAMPLES
<1>3. CASE index = 1
  BY <1>1, <1>3, FourPlaces DEF ago, NUM_SAMPLES
<1>4. CASE index = 2
  BY <1>1, <1>4, FourPlaces DEF ago, NUM_SAMPLES
<1>5. CASE index = 3
  BY <1>1, <1>5, FourPlaces DEF ago, NUM_SAMPLES
<1> QED BY <1>1, <1>2, <1>3, <1>4, <1>5

\* The reading of a turn that no edge disturbed.
LEMMA getCmValue ==
    ASSUME SensorInv, uPc = "read", unread = {}, ~disturbed
    PROVE  getCm = before
<1>1. stamp["endTime"] - stamp["startTime"] = before
  BY DEF SensorInv, PulseInv
<1>2. before \in Nat /\ before < 65536
  <2>1. before \in 0..(Timeout - 1)
    BY DEF SensorInv, UTypeOK
  <2> QED BY <2>1, Times
<1>3. getCm = (IF before >= 0 THEN before ELSE 58756 + before) % 65536
  BY <1>1 DEF getCm, Modulus, Wrap
<1> QED BY <1>2, <1>3

\* The sensor's part of a turn's end.
LEMMA DetectSensor == SensorInv /\ SumIsWindow /\ Detect => SensorInv' /\ SumIsWindow'
<1> SUFFICES ASSUME SensorInv, SumIsWindow, Detect PROVE SensorInv' /\ SumIsWindow'
  OBVIOUS
<1>1. /\ uPc = "read" /\ unread = {} /\ uPc' = "delay" /\ forget /\ store(getCm)
      /\ UNCHANGED <<time, echo, lastEcho, disturbed, unread, polls, before>>
  BY DEF Detect, echoVars
<1>2. UTypeOK /\ getCm \in 0..(Modulus - 1)
  BY getCmType DEF SensorInv
<1>3. /\ readings' \in [Window -> 0..(Modulus - 1)]
      /\ readings'[index] = getCm
      /\ index' \in Window /\ count' \in 0..NUM_SAMPLES /\ sum' \in Nat /\ SumIsWindow'
  BY <1>1, <1>2, StoreEffect, Zenon
<1>4. stamp' \in [Stamps -> Nat]
  BY <1>1 DEF forget
<1>5. UTypeOK'
  BY <1>1, <1>2, <1>3, <1>4 DEF UTypeOK
<1>6. EchoInv' /\ PulseInv'
  BY <1>1 DEF SensorInv, EchoInv, PulseInv, rising
<1>7. ReadingIsEchoBefore'
  <2>1. index \in Window /\ index' = (index + 1) % NUM_SAMPLES
    BY <1>1, <1>2 DEF UTypeOK, store
  <2>2. latest' = getCm
    BY <1>3, <2>1, AgoShift, Zenon DEF latest
  <2> QED BY <1>1, <2>2, getCmValue DEF ReadingIsEchoBefore
<1> QED BY <1>3, <1>5, <1>6, <1>7 DEF SensorInv

----------------------------------------------------------------------------
\* The detector

\* An average of four is at most Near only if one of the four is, and is in
\* range if all of them are.
LEMMA AverageOfFour ==
    ASSUME NEW a \in Nat, NEW b \in Nat, NEW c \in Nat, NEW d \in Nat, Near \in Nat
    PROVE  /\ inRange((a + b + c + d) \div 4) => a <= Near \/ b <= Near \/ c <= Near \/ d <= Near
           /\ inRange(a) /\ inRange(b) /\ inRange(c) /\ inRange(d)
                 => inRange((a + b + c + d) \div 4)
BY DEF inRange

\* What the average that Detect looks at says about the window it leaves.
LEMMA AverageOfWindow ==
    ASSUME SensorInv, SumIsWindow, store(getCm)
    PROVE  /\ inRange(movingAverage(getCm)) => \E n \in Window : readings'[n] <= Near
           /\ (\A n \in Window : inRange(readings'[n])) => inRange(movingAverage(getCm))
<1>1. UTypeOK /\ getCm \in 0..(Modulus - 1) /\ Near \in Nat
  BY getCmType, NearAssumption DEF SensorInv
<1>2. /\ readings' \in [Window -> 0..(Modulus - 1)] /\ readings'[index] = getCm /\ index \in Window
      /\ sum' = sum - readings[index] + getCm /\ SumIsWindow'
  BY <1>1, StoreEffect, Zenon DEF UTypeOK
<1>3. CASE count >= NUM_SAMPLES
  <2>1. movingAverage(getCm) = sum' \div 4
    BY <1>2, <1>3 DEF movingAverage, NUM_SAMPLES
  <2>2. /\ readings'[0] \in Nat /\ readings'[1] \in Nat /\ readings'[2] \in Nat /\ readings'[3] \in Nat
    <3>1. \A v \in 0..(Modulus - 1) : v \in Nat
      BY DEF Modulus
    <3> QED BY <1>2, <3>1, FourPlaces
  <2>3. sum' = readings'[0] + readings'[1] + readings'[2] + readings'[3]
    BY <1>2 DEF SumIsWindow
  <2> DEFINE four == readings'[0] + readings'[1] + readings'[2] + readings'[3]
  <2>4. /\ inRange(four \div 4) =>
              readings'[0] <= Near \/ readings'[1] <= Near \/ readings'[2] <= Near \/ readings'[3] <= Near
        /\ inRange(readings'[0]) /\ inRange(readings'[1]) /\ inRange(readings'[2]) /\ inRange(readings'[3])
              => inRange(four \div 4)
    BY <1>1, <2>2, AverageOfFour, Zenon
  <2>5. movingAverage(getCm) = four \div 4
    BY <2>1, <2>3
  <2> HIDE DEF four
  <2>6. \A n \in {0, 1, 2, 3} : n \in Window
    BY FourPlaces
  <2> QED BY <2>4, <2>5, <2>6, Zenon
<1>4. CASE ~(count >= NUM_SAMPLES)
  <2>1. movingAverage(getCm) = readings'[index]
    BY <1>2, <1>4 DEF movingAverage
  <2> QED BY <1>2, <2>1 DEF inRange
<1> QED BY <1>3, <1>4

\* Each place has some age.
LEMMA EveryPlace ==
    \A i \in {0, 1, 2, 3}, n \in {0, 1, 2, 3} : \E k \in {0, 1, 2, 3} : (i + 3 - k) % 4 = n
<1> SUFFICES ASSUME NEW i \in {0, 1, 2, 3}, NEW n \in {0, 1, 2, 3}
             PROVE  \E k \in {0, 1, 2, 3} : (i + 3 - k) % 4 = n
  OBVIOUS
<1>1. CASE i > n
  <2>1. i - 1 - n \in {0, 1, 2, 3} /\ (i + 3 - (i - 1 - n)) % 4 = n
    BY <1>1
  <2> QED BY <2>1
<1>2. CASE i <= n
  <2>1. i + 3 - n \in {0, 1, 2, 3} /\ (i + 3 - (i + 3 - n)) % 4 = n
    BY <1>2
  <2> QED BY <2>1
<1> QED BY <1>1, <1>2

\* The readings that were in range stay so, one turn older.
LEMMA CloseReadings ==
    ASSUME SensorInv, WindowInv, close \in Nat, store(getCm),
           close' = IF inRange(getCm) THEN close + 1 ELSE 0
    PROVE  WindowInv' /\ (close' >= 4 => \A n \in Window : inRange(readings'[n]))
<1>1. UTypeOK /\ getCm \in 0..(Modulus - 1) /\ index \in Window
  BY getCmType DEF SensorInv, UTypeOK
<1>2. /\ readings'[index] = getCm /\ SumIsWindow'
      /\ \A n \in Window \ {index} : readings'[n] = readings[n]
  BY <1>1, StoreEffect, Zenon DEF WindowInv
<1>3. index' = (index + 1) % NUM_SAMPLES
  BY DEF store
<1>4. /\ ago(0)' = index
      /\ \A k \in {1, 2, 3} : ago(k)' = ago(k - 1) /\ ago(k - 1) \in Window \ {index}
  BY <1>1, <1>3, AgoShift
<1>5. \A k \in Window : k < close' => inRange(readings'[ago(k)'])
  <2> SUFFICES ASSUME NEW k \in Window, k < close' PROVE inRange(readings'[ago(k)'])
    OBVIOUS
  <2>1. inRange(getCm) /\ close' = close + 1
    <3>1. CASE inRange(getCm)
      BY <3>1
    <3>2. CASE ~inRange(getCm)
      <4>1. close' = 0 /\ k \in Nat
        BY <3>2, FourPlaces
      <4> QED BY <4>1
    <3> QED BY <3>1, <3>2
  <2>2. CASE k = 0
    BY <1>2, <1>4, <2>1, <2>2
  <2>3. CASE k \in {1, 2, 3}
    <3>1. k - 1 \in Window /\ k - 1 < close
      BY <2>1, <2>3, FourPlaces
    <3>2. inRange(readings[ago(k - 1)])
      BY <3>1 DEF WindowInv
    <3>3. readings'[ago(k)'] = readings[ago(k - 1)]
      BY <1>2, <1>4, <2>3
    <3> QED BY <3>2, <3>3
  <2> QED BY <2>2, <2>3, FourPlaces
<1>6. WindowInv'
  BY <1>2, <1>5 DEF WindowInv
<1>7. ASSUME close' >= 4, NEW n \in Window PROVE inRange(readings'[n])
  <2>1. close' \in Nat
    BY DEF WindowInv
  <2>2. \A k \in Window : inRange(readings'[ago(k)'])
    BY <1>5, <1>7, <2>1, FourPlaces
  <2>3. \E k \in Window : ago(k)' = n
    <3>1. index' \in {0, 1, 2, 3} /\ n \in {0, 1, 2, 3}
      BY <1>1, <1>3, FourPlaces DEF NUM_SAMPLES
    <3> QED BY <3>1, EveryPlace, FourPlaces DEF ago, NUM_SAMPLES
  <2> QED BY <2>2, <2>3
<1> QED BY <1>6, <1>7

LEMMA DetectStep == ObstacleInv /\ Detect => ObstacleInv'
<1> SUFFICES ASSUME ObstacleInv, Detect PROVE ObstacleInv'
  OBVIOUS
<1>1. /\ uPc = "read" /\ uPc' = "delay" /\ polls' = polls /\ store(getCm)
      /\ close' = IF inRange(getCm) THEN close + 1 ELSE 0
      /\ IF inRange(movingAverage(getCm)) /\ ~obstacleDetected
         THEN obstacleDetected' = TRUE /\ sends' = sends + 1 /\ lastSend' = polls
         ELSE obstacleDetected' = FALSE /\ sends' = sends /\ lastSend' = lastSend
  BY Zenon DEF Detect, observe, send_ultrasonic_data
<1>2. SensorInv /\ WindowInv /\ SumIsWindow
  BY DEF ObstacleInv, WindowInv
<1>3. /\ obstacleDetected \in BOOLEAN /\ sends \in Nat /\ lastSend \in Nat /\ close \in Nat
      /\ polls \in Nat /\ polls > 0 /\ lastSend <= polls - 1
      /\ obstacleDetected => lastSend = polls - 1
  BY <1>1 DEF ObstacleInv, DetectorInv, complete
<1>4. SensorInv'
  BY <1>2, DetectSensor, Zenon
<1>5. WindowInv' /\ (close' >= 4 => \A n \in Window : inRange(readings'[n]))
  BY <1>1, <1>2, <1>3, CloseReadings, Zenon
<1>6. /\ inRange(movingAverage(getCm)) => \E n \in Window : readings'[n] <= Near
      /\ (\A n \in Window : inRange(readings'[n])) => inRange(movingAverage(getCm))
  BY <1>1, <1>2, AverageOfWindow, Zenon
<1>7. close' \in Nat
  BY <1>1, <1>3
<1>8. CASE inRange(movingAverage(getCm)) /\ ~obstacleDetected
  <2>1. obstacleDetected' = TRUE /\ sends' = sends + 1 /\ lastSend' = polls
    BY <1>1, <1>8, Zenon
  <2>2. DetectorInv'
    BY <1>1, <1>3, <1>7, <1>8, <2>1 DEF DetectorInv, complete
  <2>3. UTurnHasCause'
    BY <1>6, <1>8, Zenon DEF UTurnHasCause
  <2>4. ObstacleReported'
    BY <1>1, <1>3, <2>1 DEF ObstacleReported
  <2> QED BY <1>4, <1>5, <2>2, <2>3, <2>4 DEF ObstacleInv
<1>9. CASE ~(inRange(movingAverage(getCm)) /\ ~obstacleDetected)
  <2>1. obstacleDetected' = FALSE /\ sends' = sends /\ lastSend' = lastSend
    BY <1>1, <1>9, Zenon
  <2>3. DetectorInv'
    <3>1. /\ ~obstacleDetected' /\ obstacleDetected' \in BOOLEAN
          /\ uPc' = "delay" /\ polls' = polls /\ sends' = sends /\ lastSend' = lastSend
      BY <1>1, <2>1
    <3>2. polls \in Nat /\ sends \in Nat /\ lastSend \in Nat /\ lastSend <= polls - 1
      BY <1>3
    <3> QED BY <1>7, <3>1, <3>2 DEF DetectorInv, complete
  <2>4. UTurnHasCause'
    BY <1>1, <1>3, <2>1 DEF UTurnHasCause
  <2>5. ObstacleReported'
    <3> SUFFICES ASSUME close' >= 4 PROVE lastSend' + 1 >= polls'
      BY DEF ObstacleReported, NUM_SAMPLES
    <3>1. obstacleDetected
      BY <1>5, <1>6, <1>9, Zenon
    <3> QED BY <1>1, <1>3, <2>1, <3>1
  <2> QED BY <1>4, <1>5, <2>3, <2>4, <2>5 DEF ObstacleInv
<1> QED BY <1>8, <1>9

\* The other steps leave the window and the detector alone, but for the queue.
LEMMA OtherStep ==
    ASSUME ObstacleInv, SensorInv', UNCHANGED <<averageVars, obstacleDetected, sends, lastSend, close>>,
           \/ UNCHANGED <<uPc, polls>>
           \/ uPc = "delay" /\ uPc' = "read" /\ polls' = polls + 1
    PROVE  ObstacleInv'
<1>1. WindowInv'
  BY DEF ObstacleInv, WindowInv, SumIsWindow, ago, averageVars
<1>2. DetectorInv'
  BY DEF ObstacleInv, DetectorInv, complete
<1>3. UTurnHasCause' /\ ObstacleReported'
  <2>1. uPc' = "delay" => UNCHANGED <<uPc, polls>>
    OBVIOUS
  <2> QED BY <2>1 DEF ObstacleInv, UTurnHasCause, ObstacleReported, averageVars
<1> QED BY <1>1, <1>2, <1>3 DEF ObstacleInv

\* An unchanged sensor.
LEMMA SensorStutter == SensorInv /\ UNCHANGED sensorVars => SensorInv'
BY DEF SensorInv, UTypeOK, EchoInv, PulseInv, ReadingIsEchoBefore, latest, rising,
       sensorVars, echoVars, pollVars, averageVars

LEMMA ObstacleInit == Init => ObstacleInv
<1> SUFFICES ASSUME Init PROVE ObstacleInv
  OBVIOUS
<1>1. WindowInv
  BY FourPlaces DEF Init, UInit, WindowInv, SumIsWindow
<1>2. DetectorInv /\ UTurnHasCause /\ ObstacleReported
  <2>1. /\ uPc = "delay" /\ polls = 0 /\ sends = 0 /\ lastSend = 0 /\ close = 0
        /\ ~obstacleDetected /\ obstacleDetected \in BOOLEAN
    BY DEF Init, UInit
  <2> QED BY <2>1 DEF DetectorInv, complete, UTurnHasCause, ObstacleReported, NUM_SAMPLES
<1> QED BY <1>1, <1>2, SensorInit DEF ObstacleInv

LEMMA ObstacleStep == ObstacleInv /\ [Next]_vars => ObstacleInv'
<1> SUFFICES ASSUME ObstacleInv, [Next]_vars PROVE ObstacleInv'
  OBVIOUS
<1>0. SensorInv
  BY DEF ObstacleInv
<1>1. CASE Detect
  BY <1>1, DetectStep
<1>2. CASE recv_ultrasonic
  <2>1. UNCHANGED <<sensorVars, obstacleDetected, sends, lastSend, close>>
    BY <1>2 DEF recv_ultrasonic
  <2> QED BY <1>0, <2>1, SensorStutter, OtherStep DEF sensorVars, pollVars
<1>3. CASE Trigger /\ UNCHANGED taskVars
  BY <1>0, <1>3, TriggerStep, OtherStep DEF Trigger, taskVars
<1>4. CASE Echo /\ UNCHANGED taskVars
  <2>1. UNCHANGED <<pollVars, averageVars>>
    BY <1>4 DEF Echo, EchoRise, EchoFall, EchoMerged, NoEcho
  <2> QED BY <1>0, <1>4, <2>1, EchoStep, OtherStep DEF taskVars, pollVars
<1>5. ASSUME NEW x \in Stamps, ReadStamp(x), UNCHANGED taskVars
      PROVE  ObstacleInv'
  BY <1>0, <1>5, StampStep, OtherStep DEF ReadStamp, taskVars
<1>6. CASE UNCHANGED vars
  BY <1>0, <1>6, SensorStutter, OtherStep DEF vars, taskVars, sensorVars, pollVars
<1> QED BY <1>1, <1>2, <1>3, <1>4, <1>5, <1>6 DEF Next, Finished

----------------------------------------------------------------------------
LEMMA ObstacleInvariant == Spec => []ObstacleInv
BY ObstacleInit, ObstacleStep, PTL DEF Spec

\* ultrasonic.c: getPulse does not wait for the echo it has triggered.  What a
\* turn of ultrasonic_main stores is the distance of the last echo before the
\* trigger unless an edge came while the stamps were being read, for every
\* timing of the echoes and every order of the two reads.
THEOREM ReadingIsOld == Spec => []ReadingIsEchoBefore
<1>1. ObstacleInv => ReadingIsEchoBefore
  BY DEF ObstacleInv, SensorInv
<1> QED BY <1>1, ObstacleInvariant, PTL

\* obstacle.c, the flag of ultrasonic_main: two readings in a row never both
\* send a command, whatever the distances.
THEOREM AlternateSends == Spec => SendsAlternate
<1> DEFINE Alternate == sends' # sends /\ sends > 0 => lastSend' >= lastSend + 2
<1>1. ASSUME ObstacleInv, [Next]_vars PROVE [Alternate]_vars
  <2> SUFFICES ASSUME Next, sends' # sends, sends > 0
               PROVE  lastSend' >= lastSend + 2
      BY <1>1
  <2>1. Detect
    BY DEF Next, recv_ultrasonic, Finished, taskVars, vars
  <2>2. uPc = "read" /\ ~obstacleDetected /\ lastSend' = polls
    BY <2>1, Zenon DEF Detect, send_ultrasonic_data
  <2>3. lastSend < polls - 1 /\ polls \in Nat /\ lastSend \in Nat
    BY <1>1, <2>2 DEF ObstacleInv, DetectorInv, complete
  <2> QED BY <2>2, <2>3
<1>2. Spec => [][Next]_vars
  BY DEF Spec
<1> QED BY <1>1, <1>2, ObstacleInvariant, PTL DEF SendsAlternate

\* obstacle.c: a command to turn round comes from a window in which at least
\* one reading is at most the distance of an obstacle.
THEOREM TurnsHaveReadings == Spec => []UTurnHasCause
<1>1. ObstacleInv => UTurnHasCause
  BY DEF ObstacleInv
<1> QED BY <1>1, ObstacleInvariant, PTL

\* obstacle.c: four readings in a row in range cause a command at the last of
\* them or had caused one at the reading before it.
THEOREM ObstaclesAreSeen == Spec => []ObstacleReported
<1>1. ObstacleInv => ObstacleReported
  BY DEF ObstacleInv
<1> QED BY <1>1, ObstacleInvariant, PTL
====
