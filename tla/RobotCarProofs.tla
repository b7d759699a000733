---- MODULE RobotCarProofs ----
(***************************************************************************)
(* Proofs about RobotCar, for a queue of any length, any limits and any    *)
(* number of commands: which commands the sensor task sends, and what ties *)
(* the motor, the mailbox, the page and the queue together.  Then about    *)
(* QueueBoot, for any set of sensors and any choice of those whose task    *)
(* calls the handler function: how there comes to be such a queue at both  *)
(* ends.                                                                   *)
(***************************************************************************)
EXTENDS RobotCar, QueueBoot, TLAPS

Colours == {0, 1}
Strings == {"", "left", "right"}

----------------------------------------------------------------------------
\* The sensor task.  What has been read has been reacted to; the latest
\* command is the one for the latest readings, even between the two halves of
\* a pass; and after a first half that has sent, the readings differ, so that
\* a changed reading of the left sensor makes them equal.
LineInv ==
    /\ line \in [L!Sides -> Colours]
    /\ sensor \in [L!Sides -> Colours]
    /\ prev_sensor = sensor
    /\ sensor["LEFT"] = 0 /\ sensor["RIGHT"] = 1 => lastSend = "left"
    /\ sensor["LEFT"] = 1 /\ sensor["RIGHT"] = 0 => lastSend = "right"
    /\ passSends \in {0, 1}
    /\ lPc = "left" /\ passSends = 1 => sensor["LEFT"] # sensor["RIGHT"]

\* The queue and its numbering: the command in the hands of recv_ir is the one
\* before those in the queue.
QueueInv ==
    /\ queue \in Seq({"left", "right"}) /\ Len(queue) <= QueueLen
    /\ accepted \in Nat /\ recvId \in Nat /\ boxId \in Nat
    /\ recvId + Len(queue) = accepted

\* recv_ir and the mailbox.
RecvInv ==
    /\ rPc \in {"receive", "web", "motor"}
    /\ writing \in [{"recv_ir"} -> Strings]
    /\ received \in Strings
    /\ rPc # "motor" => writing["recv_ir"] = ""
    /\ rPc # "receive" => received # ""
    /\ IF rPc = "web" \/ (rPc = "motor" /\ writing["recv_ir"] = "")
       THEN recvId = boxId + 1
       ELSE recvId = boxId
    /\ rPc = "motor" => ir_motor_data = received
    /\ motor_command \in [head : Strings, rest : Strings]
    /\ recvId = boxId => motor_command.head \in {"", ir_motor_data}

\* The motor has begun at most as many manoeuvres as commands have reached the
\* mailbox, not counting one that is there and will be acted on.
pendingTurn == IF mPc = "delay" /\ motor_command.head # "" THEN 1 ELSE 0
TurnInv == turns \in Nat /\ turns + pendingTurn <= boxId

CarInv == LineInv /\ QueueInv /\ RecvInv /\ TurnInv

\* The command for a pair of readings, without the CASE.
LEMMA CommandIs ==
    ASSUME NEW r \in [L!Sides -> Colours]
    PROVE  /\ r["LEFT"] = r["RIGHT"] => L!command(r) = ""
           /\ r["LEFT"] = 0 /\ r["RIGHT"] = 1 => L!command(r) = "left"
           /\ r["LEFT"] = 1 /\ r["RIGHT"] = 0 => L!command(r) = "right"
BY DEF L!command, L!WHITE, L!BLACK

LEMMA CarInvInit == Init => CarInv
<1> SUFFICES ASSUME Init PROVE CarInv
  OBVIOUS
<1>1. LineInv
  <2>1. sensor \in [L!Sides -> Colours] /\ sensor["LEFT"] = sensor["RIGHT"]
    BY DEF Init, L!Init, L!Sides, L!WHITE, Colours
  <2>2. /\ line \in [L!Sides -> Colours] /\ lPc = "delay" /\ prev_sensor = sensor
        /\ passSends = 0
    BY DEF Init, L!Init, L!WHITE, L!BLACK, Colours
  <2> QED BY <2>1, <2>2 DEF LineInv
<1>2. QueueInv
  <2>1. queue = <<>> /\ accepted = 0 /\ recvId = 0 /\ boxId = 0
    BY DEF Init, L!Init
  <2>2. queue \in Seq({"left", "right"}) /\ Len(queue) = 0
    BY <2>1
  <2> QED BY <2>1, <2>2, CarAssumption DEF QueueInv
<1>3. RecvInv
  BY DEF Init, M!Init, RecvInv, Strings
<1>4. TurnInv
  <2>1. motor_command \in [head : Strings, rest : Strings] /\ motor_command.head = ""
    BY DEF Init, M!Init, Strings
  <2>2. pendingTurn = 0
    BY <2>1 DEF pendingTurn, Strings
  <2>3. turns = 0 /\ boxId = 0
    BY DEF Init, M!Init
  <2> QED BY <2>2, <2>3 DEF TurnInv
<1> QED BY <1>1, <1>2, <1>3, <1>4 DEF CarInv

\* A half of a pass, as far as it concerns readings and commands sent.
LEMMA ReadEffect ==
    ASSUME LineInv, NEW s \in L!Sides, NEW sent \in {0, 1}, L!Read(s, sent)
    PROVE  /\ sensor' \in [L!Sides -> Colours]
           /\ prev_sensor' = sensor'
           /\ line' = line
           /\ sensor' = [sensor EXCEPT ![s] = sensor'[s]]
           /\ \/ /\ sensor'[s] # sensor[s]
                 /\ L!command(sensor') # ""
                 /\ lastSend' = L!command(sensor')
                 /\ passSends' = sent + 1
              \/ /\ sensor' = sensor \/ L!command(sensor') = ""
                 /\ lastSend' = lastSend
                 /\ passSends' = sent
<1>1. line[s] \in Colours /\ sensor \in [L!Sides -> Colours] /\ prev_sensor = sensor
  BY DEF LineInv
<1>2. /\ sensor' = [sensor EXCEPT ![s] = line[s]]
      /\ prev_sensor' = [prev_sensor EXCEPT ![s] = line[s]]
      /\ line' = line
  BY DEF L!Read
<1>3. /\ sensor' \in [L!Sides -> Colours] /\ sensor'[s] = line[s] /\ prev_sensor' = sensor'
      /\ sensor' = [sensor EXCEPT ![s] = sensor'[s]]
      /\ line[s] = sensor[s] => sensor' = sensor
  BY <1>1, <1>2
<1>4. CASE line[s] # prev_sensor[s] /\ L!command(sensor') # ""
  BY <1>1, <1>2, <1>3, <1>4 DEF L!Read, L!send_sensor_data
<1>5. CASE ~(line[s] # prev_sensor[s] /\ L!command(sensor') # "")
  BY <1>1, <1>2, <1>3, <1>5 DEF L!Read
<1> QED BY <1>4, <1>5

LEMMA ReadLines ==
    ASSUME LineInv, L!Poll
    PROVE  LineInv'
<1>0. /\ line \in [L!Sides -> Colours] /\ sensor \in [L!Sides -> Colours]
      /\ sensor["LEFT"] \in {0, 1} /\ sensor["RIGHT"] \in {0, 1}
      /\ passSends \in {0, 1} /\ "LEFT" \in L!Sides /\ "RIGHT" \in L!Sides
  BY DEF LineInv, L!Sides, Colours
<1>1. CASE L!ReadRight
  <2>1. lPc' = "left" /\ L!Read("RIGHT", 0)
    BY <1>1 DEF L!ReadRight
  <2>2. /\ sensor' \in [L!Sides -> Colours] /\ prev_sensor' = sensor' /\ line' = line
        /\ \/ /\ L!command(sensor') # "" /\ lastSend' = L!command(sensor') /\ passSends' = 1
           \/ /\ sensor' = sensor \/ L!command(sensor') = ""
              /\ lastSend' = lastSend /\ passSends' = 0
    <3>1. 0 \in {0, 1} /\ 0 + 1 = 1
      OBVIOUS
    <3> QED BY <1>0, <2>1, <3>1, ReadEffect
  <2>3. /\ sensor'["LEFT"] = sensor'["RIGHT"] => L!command(sensor') = ""
        /\ sensor'["LEFT"] = 0 /\ sensor'["RIGHT"] = 1 => L!command(sensor') = "left"
        /\ sensor'["LEFT"] = 1 /\ sensor'["RIGHT"] = 0 => L!command(sensor') = "right"
    BY <2>2, CommandIs
  <2> QED BY <1>0, <2>1, <2>2, <2>3 DEF LineInv
<1>2. CASE L!ReadLeft
  <2>1. lPc = "left" /\ lPc' = "delay" /\ L!Read("LEFT", passSends)
    BY <1>2 DEF L!ReadLeft
  <2>2. /\ sensor' \in [L!Sides -> Colours] /\ prev_sensor' = sensor' /\ line' = line
        /\ sensor' = [sensor EXCEPT !["LEFT"] = sensor'["LEFT"]]
        /\ \/ /\ sensor'["LEFT"] # sensor["LEFT"] /\ L!command(sensor') # ""
              /\ lastSend' = L!command(sensor') /\ passSends' = passSends + 1
           \/ /\ sensor' = sensor \/ L!command(sensor') = ""
              /\ lastSend' = lastSend /\ passSends' = passSends
    BY <1>0, <2>1, ReadEffect
  <2>3. /\ sensor'["LEFT"] = sensor'["RIGHT"] => L!command(sensor') = ""
        /\ sensor'["LEFT"] = 0 /\ sensor'["RIGHT"] = 1 => L!command(sensor') = "left"
        /\ sensor'["LEFT"] = 1 /\ sensor'["RIGHT"] = 0 => L!command(sensor') = "right"
    BY <2>2, CommandIs
  <2>4. sensor'["RIGHT"] = sensor["RIGHT"] /\ sensor'["LEFT"] \in {0, 1}
    BY <1>0, <2>2 DEF Colours
  <2>5. passSends = 1 /\ sensor'["LEFT"] # sensor["LEFT"] => L!command(sensor') = ""
    <3>1. passSends = 1 => sensor["LEFT"] # sensor["RIGHT"]
      BY <2>1 DEF LineInv
    <3> QED BY <1>0, <2>3, <2>4, <3>1
  <2>6. passSends' \in {0, 1}
    <3>1. /\ passSends' = passSends \/ passSends' = passSends + 1
          /\ passSends = 1 => passSends' = passSends
      BY <2>2, <2>5
    <3>2. passSends = 0 \/ passSends = 1
      BY <1>0
    <3> QED BY <3>1, <3>2
  <2>7. /\ sensor'["LEFT"] = 0 /\ sensor'["RIGHT"] = 1 => lastSend' = "left"
        /\ sensor'["LEFT"] = 1 /\ sensor'["RIGHT"] = 0 => lastSend' = "right"
    <3>1. /\ sensor["LEFT"] = 0 /\ sensor["RIGHT"] = 1 => lastSend = "left"
          /\ sensor["LEFT"] = 1 /\ sensor["RIGHT"] = 0 => lastSend = "right"
      BY DEF LineInv
    <3> QED BY <2>2, <2>3, <3>1
  <2> QED BY <1>0, <2>1, <2>2, <2>6, <2>7 DEF LineInv
<1> QED BY <1>1, <1>2 DEF L!Poll

\* What a half of a pass, a whole step of the queue's other end, does to the queue.
LEMMA PollQueue ==
    ASSUME QueueInv, LineInv, L!Poll, UNCHANGED <<recvId, boxId>>
    PROVE  QueueInv'
<1>1. \/ UNCHANGED <<queue, accepted>>
      \/ \E c \in {"left", "right"} :
            queue' = Append(queue, c) /\ accepted' = accepted + 1 /\ Len(queue) < QueueLen
  <2>1. ASSUME NEW s \in L!Sides, NEW sent, L!Read(s, sent)
        PROVE  \/ UNCHANGED <<queue, accepted>>
               \/ /\ L!command(sensor') # ""
                  /\ queue' = Append(queue, L!command(sensor'))
                  /\ accepted' = accepted + 1 /\ Len(queue) < QueueLen
    BY <2>1 DEF L!Read, L!send_sensor_data
  <2>2. ASSUME NEW r PROVE L!command(r) \in {"", "left", "right"}
    BY DEF L!command
  <2> QED BY <2>1, <2>2 DEF L!Poll, L!ReadRight, L!ReadLeft, L!Sides
<1>2. CASE UNCHANGED <<queue, accepted>>
  BY <1>2 DEF QueueInv
<1>3. ASSUME NEW c \in {"left", "right"},
             queue' = Append(queue, c), accepted' = accepted + 1, Len(queue) < QueueLen
      PROVE  QueueInv'
  BY <1>3, CarAssumption DEF QueueInv
<1> QED BY <1>1, <1>2, <1>3

\* The motor task's steps leave the receiver's string in the mailbox or clear
\* it, and begin a manoeuvre only for a string that is there.
LEMMA MotorEffect ==
    ASSUME M!MotorStep, motor_command \in [head : Strings, rest : Strings]
    PROVE  /\ writing' = writing
           /\ \/ motor_command' = motor_command
              \/ motor_command' = [motor_command EXCEPT !.head = ""]
           /\ \/ turns' = turns /\ (mPc' = "delay" => mPc = "delay" \/ motor_command'.head = "")
              \/ /\ turns' = turns + 1 /\ mPc = "delay" /\ motor_command.head # ""
                 /\ mPc' # "delay"
<1>1. ASSUME NEW m \in {"left", "right"}, M!ReactTurn(m)
      PROVE  /\ writing' = writing /\ motor_command' = motor_command
             /\ turns' = turns + 1 /\ mPc = "delay" /\ motor_command.head # ""
             /\ mPc' # "delay"
  BY <1>1 DEF M!ReactTurn, M!Poll, M!Begin, M!Received
<1>2. ASSUME M!ReactStop \/ M!ReactUTurn
      PROVE  /\ writing' = writing /\ motor_command' = motor_command
             /\ turns' = turns + 1 /\ mPc = "delay" /\ motor_command.head # ""
             /\ mPc' # "delay"
  BY <1>2 DEF M!ReactStop, M!ReactUTurn, M!Poll, M!Begin, M!Received
<1>3. ASSUME M!Cruise \/ M!Turn \/ M!Spin \/ M!EndTurn \/ M!EndSpin
      PROVE  /\ writing' = writing /\ motor_command' = motor_command /\ turns' = turns
             /\ mPc' = "delay" => mPc = "delay"
  BY <1>3 DEF M!Cruise, M!Turn, M!Spin, M!EndTurn, M!EndSpin
<1>4. ASSUME M!Finish
      PROVE  /\ writing' = writing /\ turns' = turns
             /\ motor_command' = [motor_command EXCEPT !.head = ""]
             /\ motor_command'.head = ""
  BY <1>4 DEF M!Finish, M!clear_command, Strings
<1> QED BY <1>1, <1>2, <1>3, <1>4 DEF M!MotorStep

LEMMA MotorTaskInv == CarInv /\ MotorTask => CarInv'
<1> SUFFICES ASSUME CarInv, MotorTask PROVE CarInv'
  OBVIOUS
<1>1. M!MotorStep /\ UNCHANGED <<sensorVars, queue, recvVars>>
  BY DEF MotorTask
<1>2. motor_command \in [head : Strings, rest : Strings]
  BY DEF CarInv, RecvInv
<1>3. LineInv' /\ QueueInv'
  BY <1>1 DEF CarInv, LineInv, QueueInv, sensorVars, recvVars
<1>4. /\ motor_command' \in [head : Strings, rest : Strings]
      /\ motor_command'.head \in {motor_command.head, ""}
      /\ writing' = writing
  BY <1>1, <1>2, MotorEffect DEF Strings
<1>5. RecvInv'
  BY <1>1, <1>4 DEF CarInv, RecvInv, recvVars, Strings
<1>6. TurnInv'
  <2>1. turns \in Nat /\ boxId \in Nat /\ boxId' = boxId /\ turns + pendingTurn <= boxId
    BY <1>1 DEF CarInv, TurnInv, QueueInv, recvVars
  <2>a. motor_command' \in [head : Strings, rest : Strings]
    BY <1>4
  <2>2. CASE turns' = turns /\ (mPc' = "delay" => mPc = "delay" \/ motor_command'.head = "")
    <3>1. pendingTurn' = pendingTurn \/ (pendingTurn = 1 /\ pendingTurn' = 0)
      <4>1. pendingTurn \in {0, 1} /\ pendingTurn' \in {0, 1}
        BY DEF pendingTurn
      <4>2. pendingTurn' = 1 => pendingTurn = 1
        BY <1>2, <1>4, <2>a, <2>2 DEF pendingTurn, Strings
      <4> QED BY <4>1, <4>2
    <3>2. turns' = turns
      BY <2>2
    <3>3. CASE pendingTurn' = pendingTurn
      BY <2>1, <3>2, <3>3 DEF TurnInv
    <3>4. CASE pendingTurn = 1 /\ pendingTurn' = 0
      BY <2>1, <3>2, <3>4 DEF TurnInv
    <3> QED BY <3>1, <3>3, <3>4
  <2>3. CASE turns' = turns + 1 /\ mPc = "delay" /\ motor_command.head # "" /\ mPc' # "delay"
    <3>1. pendingTurn = 1 /\ pendingTurn' = 0
      BY <1>2, <1>4, <2>3 DEF pendingTurn, Strings
    <3>2. turns' = turns + 1
      BY <2>3
    <3> QED BY <2>1, <3>1, <3>2 DEF TurnInv
  <2> QED BY <1>1, <1>2, <2>2, <2>3, MotorEffect
<1> QED BY <1>3, <1>5, <1>6 DEF CarInv

\* recv_ir.
LEMMA RecvTaskInv == CarInv /\ RecvTask => CarInv'
<1> SUFFICES ASSUME CarInv, RecvTask PROVE CarInv'
  OBVIOUS
<1>0. QueueInv /\ RecvInv
  BY DEF CarInv
<1>1. CASE Receive
  <2>1. /\ rPc = "receive" /\ rPc' = "web" /\ queue # <<>>
        /\ received' = Head(queue) /\ queue' = Tail(queue)
        /\ recvId' = accepted - Len(queue) + 1
        /\ UNCHANGED <<accepted, boxId, ir_motor_data, writing, motor_command, turns, mPc>>
    BY <1>1 DEF Receive, motorVars, sensorVars
  <2>2. LineInv'
    BY <1>1 DEF CarInv, Receive, sensorVars, LineInv
  <2>3. received' \in {"left", "right"} /\ recvId' = recvId + 1 /\ QueueInv'
    BY <1>0, <2>1, CarAssumption DEF QueueInv
  <2>a. recvId = boxId /\ recvId \in Nat /\ boxId' = boxId
    BY <1>0, <2>1 DEF QueueInv, RecvInv
  <2>4. recvId' = boxId' + 1 /\ recvId' # boxId'
    BY <2>3, <2>a
  <2>5. RecvInv'
    BY <1>0, <2>1, <2>3, <2>4 DEF RecvInv, Strings
  <2>6. TurnInv'
    BY <2>1 DEF CarInv, TurnInv, pendingTurn
  <2> QED BY <2>2, <2>3, <2>5, <2>6 DEF CarInv
<1>2. CASE set_ir_motor_command
  <2>1. /\ rPc = "web" /\ rPc' = "motor" /\ ir_motor_data' = received
        /\ UNCHANGED <<queue, received, recvId, boxId, accepted, writing, motor_command, turns, mPc>>
    BY <1>2 DEF set_ir_motor_command, motorVars, sensorVars
  <2>2. LineInv' /\ QueueInv'
    BY <1>2 DEF CarInv, set_ir_motor_command, sensorVars, LineInv, QueueInv
  <2>a. recvId = boxId + 1 /\ boxId \in Nat /\ boxId' = boxId /\ recvId' = recvId
    BY <1>0, <2>1 DEF QueueInv, RecvInv
  <2>3. recvId' # boxId'
    BY <2>a
  <2>4. RecvInv'
    BY <1>0, <2>1, <2>3 DEF RecvInv, Strings
  <2>5. TurnInv'
    BY <2>1 DEF CarInv, TurnInv, pendingTurn
  <2> QED BY <2>2, <2>4, <2>5 DEF CarInv
<1>3. CASE WriteHead
  <2>1. /\ rPc = "motor" /\ writing["recv_ir"] = ""
        /\ motor_command' = [motor_command EXCEPT !.head = received]
        /\ writing' = [writing EXCEPT !["recv_ir"] = received]
        /\ boxId' = recvId
        /\ UNCHANGED <<queue, rPc, received, ir_motor_data, recvId, accepted, turns, mPc>>
    BY <1>3 DEF WriteHead, M!WriteHead, M!motorVars, sensorVars
  <2>2. LineInv' /\ QueueInv'
    BY <1>0, <1>3, <2>1 DEF CarInv, WriteHead, sensorVars, LineInv, QueueInv
  <2>3. recvId = boxId + 1 /\ boxId \in Nat
    BY <1>0, <2>1 DEF RecvInv, QueueInv
  <2>4. RecvInv'
    BY <1>0, <2>1, <2>3 DEF RecvInv, Strings
  <2>5. TurnInv'
    <3>1. pendingTurn' \in {0, 1} /\ pendingTurn \in {0, 1}
      BY DEF pendingTurn
    <3>2. turns \in Nat /\ turns + pendingTurn <= boxId /\ turns' = turns /\ boxId' = boxId + 1
      BY <2>1, <2>3 DEF CarInv, TurnInv
    <3>3. turns + pendingTurn' <= boxId + 1
      <4>1. pendingTurn = 0 \/ pendingTurn = 1
        BY <3>1
      <4>2. turns <= boxId
        BY <2>3, <3>2, <4>1
      <4>3. CASE pendingTurn' = 0
        BY <2>3, <3>2, <4>2, <4>3
      <4>4. CASE pendingTurn' = 1
        BY <2>3, <3>2, <4>2, <4>4
      <4> QED BY <3>1, <4>3, <4>4
    <3> QED BY <3>2, <3>3 DEF TurnInv
  <2> QED BY <2>2, <2>4, <2>5 DEF CarInv
<1>4. CASE WriteRest
  <2>1. /\ rPc = "motor" /\ rPc' = "receive" /\ writing["recv_ir"] # ""
        /\ motor_command' = [motor_command EXCEPT !.rest = writing["recv_ir"]]
        /\ writing' = [writing EXCEPT !["recv_ir"] = ""]
        /\ UNCHANGED <<queue, received, ir_motor_data, recvId, boxId, accepted, turns, mPc>>
    BY <1>4 DEF WriteRest, M!WriteRest, M!motorVars, sensorVars
  <2>2. LineInv' /\ QueueInv'
    BY <1>4 DEF CarInv, WriteRest, sensorVars, LineInv, QueueInv
  <2>3. /\ motor_command' \in [head : Strings, rest : Strings]
        /\ motor_command'.head = motor_command.head
    BY <1>0, <2>1 DEF RecvInv, Strings
  <2>4. RecvInv'
    BY <1>0, <2>1, <2>3 DEF RecvInv, Strings
  <2>5. TurnInv'
    BY <1>0, <2>1, <2>3 DEF CarInv, RecvInv, TurnInv, pendingTurn, Strings
  <2> QED BY <2>2, <2>4, <2>5 DEF CarInv
<1> QED BY <1>1, <1>2, <1>3, <1>4 DEF RecvTask, recv_ir

LEMMA CarInvNext == CarInv /\ [Next]_vars => CarInv'
<1> SUFFICES ASSUME CarInv, [Next]_vars PROVE CarInv'
  OBVIOUS
<1>1. CASE UNCHANGED vars
  BY <1>1 DEF CarInv, LineInv, QueueInv, RecvInv, TurnInv, pendingTurn, vars, motorVars,
              sensorVars, recvVars
<1>2. CASE LineTask
  <2>1. L!Poll /\ UNCHANGED <<motorVars, recvVars>>
    BY <1>2 DEF LineTask
  <2>2. LineInv' /\ QueueInv'
    BY <2>1, ReadLines, PollQueue DEF CarInv, recvVars
  <2>3. RecvInv' /\ TurnInv'
    BY <2>1 DEF CarInv, RecvInv, TurnInv, pendingTurn, motorVars, recvVars
  <2> QED BY <2>2, <2>3 DEF CarInv
<1>3. CASE LineMoves
  <2>1. L!Move /\ UNCHANGED <<motorVars, recvVars>>
    BY <1>3 DEF LineMoves
  <2>2. /\ line' \in [L!Sides -> Colours]
        /\ UNCHANGED <<queue, lPc, sensor, prev_sensor, attempts, accepted, lastSend, passSends>>
    BY <2>1 DEF L!Move, L!lineVars, L!Sides, Colours, CarInv, LineInv
  <2>3. LineInv'
    BY <2>2 DEF CarInv, LineInv
  <2>4. QueueInv' /\ RecvInv' /\ TurnInv'
    BY <2>1, <2>2 DEF CarInv, QueueInv, RecvInv, TurnInv, pendingTurn, motorVars, recvVars
  <2> QED BY <2>3, <2>4 DEF CarInv
<1>4. ASSUME NEW s \in M!Sides, Encoder(s)
      PROVE  CarInv'
  BY <1>4 DEF Encoder, M!Notch, M!motorVars, sensorVars, recvVars, CarInv, LineInv,
              QueueInv, RecvInv, TurnInv, pendingTurn
<1> QED BY <1>1, <1>2, <1>3, <1>4, MotorTaskInv, RecvTaskInv DEF Next

LEMMA CarInvHolds == Spec => []CarInv
BY CarInvInit, CarInvNext, PTL DEF Spec, SafetySpec

----------------------------------------------------------------------------
\* At the end of a pass the latest command sent is the one for the readings,
\* although the first half may have acted on a stale reading of the left side.
THEOREM CommandMatches == Spec => []LatestCommandMatchesSensors
<1>1. CarInv => LatestCommandMatchesSensors
  <2> SUFFICES ASSUME LineInv PROVE L!command(sensor) # "" => lastSend = L!command(sensor)
    BY DEF CarInv, LatestCommandMatchesSensors, L!LatestCommandMatchesSensors
  <2>1. sensor \in [L!Sides -> Colours]
    BY DEF LineInv
  <2>2. /\ sensor["LEFT"] = sensor["RIGHT"] => L!command(sensor) = ""
        /\ sensor["LEFT"] = 0 /\ sensor["RIGHT"] = 1 => L!command(sensor) = "left"
        /\ sensor["LEFT"] = 1 /\ sensor["RIGHT"] = 0 => L!command(sensor) = "right"
    BY <2>1, CommandIs
  <2>3. sensor["LEFT"] \in {0, 1} /\ sensor["RIGHT"] \in {0, 1}
    BY <2>1 DEF L!Sides, Colours
  <2>4. /\ sensor["LEFT"] = 0 /\ sensor["RIGHT"] = 1 => lastSend = "left"
        /\ sensor["LEFT"] = 1 /\ sensor["RIGHT"] = 0 => lastSend = "right"
    BY DEF LineInv
  <2>5. CASE sensor["LEFT"] = sensor["RIGHT"]
    BY <2>2, <2>5
  <2>6. CASE sensor["LEFT"] = 0 /\ sensor["RIGHT"] = 1
    BY <2>2, <2>4, <2>6
  <2>7. CASE sensor["LEFT"] = 1 /\ sensor["RIGHT"] = 0
    BY <2>2, <2>4, <2>7
  <2> QED BY <2>3, <2>5, <2>6, <2>7
<1> QED BY <1>1, CarInvHolds, PTL

\* The two halves of a pass never both send a command.
THEOREM OnePerPass == Spec => []OneCommandPerPass
<1>1. CarInv => OneCommandPerPass
  BY DEF CarInv, LineInv, OneCommandPerPass, L!OneCommandPerPass
<1> QED BY <1>1, CarInvHolds, PTL

\* Every manoeuvre has a command of its own that was sent, accepted and
\* delivered: manoeuvres and commands still under way are together no more
\* than the commands accepted.
THEOREM EveryTurnHasItsCommand == Spec => []TurnsHaveCauses
<1>1. CarInv => TurnsHaveCauses
  <2> SUFFICES ASSUME CarInv PROVE turns + (accepted - boxId) <= accepted
    BY DEF TurnsHaveCauses, Underway
  <2>1. turns \in Nat /\ boxId \in Nat /\ accepted \in Nat /\ turns + pendingTurn <= boxId
    BY DEF CarInv, TurnInv, QueueInv
  <2>2. pendingTurn = 0 \/ pendingTurn = 1
    BY DEF pendingTurn
  <2>3. turns <= boxId
    BY <2>1, <2>2
  <2> QED BY <2>1, <2>3
<1> QED BY <1>1, CarInvHolds, PTL

\* A command the motor can act on is at most QueueLen + 1 commands old, for a
\* queue of any length.
THEOREM StalenessBound == Spec => []BoundedStaleness
<1>1. CarInv => BoundedStaleness
  <2> SUFFICES ASSUME CarInv PROVE accepted - boxId <= QueueLen + 1
    BY DEF BoundedStaleness, Underway
  <2>1. /\ accepted \in Nat /\ recvId \in Nat /\ boxId \in Nat
        /\ recvId + Len(queue) = accepted /\ Len(queue) <= QueueLen /\ Len(queue) \in Nat
    BY DEF CarInv, QueueInv
  <2>2. recvId = boxId \/ recvId = boxId + 1
    BY DEF CarInv, RecvInv
  <2> QED BY <2>1, <2>2, CarAssumption
<1> QED BY <1>1, CarInvHolds, PTL

\* The page shows the command the motor is about to act on, unless a later one
\* is already in the receiver's hands.
THEOREM PageKeepsUp == Spec => []PageNotBehindMotor
<1>1. CarInv => PageNotBehindMotor
  <2> SUFFICES ASSUME CarInv, NEW c \in {"left", "right"}, M!Received(c), ir_motor_data # c
               PROVE  recvId > boxId
    BY DEF PageNotBehindMotor
  <2>1. /\ motor_command \in [head : Strings, rest : Strings]
        /\ recvId = boxId => motor_command.head \in {"", ir_motor_data}
    BY DEF CarInv, RecvInv
  <2>2. motor_command.head = c
    BY DEF M!Received
  <2>3. recvId # boxId
    BY <2>1, <2>2 DEF Strings
  <2>4. boxId \in Nat /\ (recvId = boxId \/ recvId = boxId + 1)
    BY DEF CarInv, RecvInv, QueueInv
  <2> QED BY <2>3, <2>4
<1> QED BY <1>1, CarInvHolds, PTL

----------------------------------------------------------------------------
\* The tasks of RobotCar take no step that Motor does not allow its writer:
\* every step of the car is a step of Motor or leaves its variables alone
\* (the safety part of ImplementsMotor).
THEOREM ImplementsMotorSafety == Spec => M!SafetySpec
<1>1. Init => M!Init
  BY DEF Init
<1>2. [Next]_vars /\ CarInv => [M!Next]_(M!vars)
  <2> SUFFICES ASSUME [Next]_vars, CarInv PROVE [M!Next]_(M!vars)
    OBVIOUS
  <2>1. CASE UNCHANGED motorVars
    BY <2>1 DEF motorVars, M!vars, M!motorVars, M!wheelVars
  <2>2. CASE MotorTask
    BY <2>2 DEF MotorTask, M!Next
  <2>3. CASE WriteHead
    <3>1. received \in {"left", "right"}
      BY <2>3 DEF WriteHead, CarInv, RecvInv, Strings
    <3>2. M!WriteHead("recv_ir", received)
      BY <2>3 DEF WriteHead
    <3> QED BY <3>1, <3>2 DEF M!Next
  <2>4. CASE WriteRest
    BY <2>4 DEF WriteRest, M!Next
  <2>5. CASE Receive \/ set_ir_motor_command \/ LineTask \/ LineMoves \/ UNCHANGED vars
    <3>1. UNCHANGED motorVars
      BY <2>5 DEF Receive, set_ir_motor_command, LineTask, LineMoves, vars
    <3> QED BY <2>1, <3>1
  <2>6. ASSUME NEW s \in M!Sides, Encoder(s) PROVE [M!Next]_(M!vars)
    BY <2>6 DEF Encoder, M!Next
  <2> QED BY <2>2, <2>3, <2>4, <2>5, <2>6 DEF Next, RecvTask, recv_ir
<1> QED BY <1>1, <1>2, CarInvHolds, PTL DEF Spec, SafetySpec, M!SafetySpec

----------------------------------------------------------------------------
\* The start-up of both ends of a queue

Places == {"test", "create", "store", "return", "assign", "run"}

TypeInv ==
    /\ handle \in [Channels -> Nat]
    /\ mine \in [Channels -> Nat]
    /\ created \in [Channels -> Nat]
    /\ ret \in [Channels -> [Tasks -> Nat]]
    /\ pc \in [Channels -> [Tasks -> Places]]

\* Whatever has been stored anywhere is the handle of a queue that exists, and
\* past the store (or past the test that found a handle) the handle is not NULL.
HandleInv(ch) ==
    /\ handle[ch] <= created[ch]
    /\ mine[ch] <= created[ch]
    /\ \A t \in Tasks :
          /\ ret[ch][t] <= created[ch]
          /\ pc[ch][t] \in {"store", "assign"} => ret[ch][t] > 0
          /\ pc[ch][t] \in {"return", "assign", "run"} => handle[ch] > 0
    /\ pc[ch]["receiver"] = "run" => mine[ch] > 0

\* While one task has not yet tested the handle, the other is alone: what it
\* has in its hands is the handle.
AloneInv(ch) ==
    pc[ch]["sensor"] = "test" =>
        /\ pc[ch]["receiver"] = "assign" => ret[ch]["receiver"] = handle[ch]
        /\ pc[ch]["receiver"] = "run" => mine[ch] = handle[ch]

QInv == TypeInv /\ \A ch \in Channels : HandleInv(ch) /\ AloneInv(ch)

Step(ch, t) ==
    \/ Test(ch, t) \/ xQueueCreate(ch, t) \/ Store(ch, t) \/ Return(ch, t) \/ Assign(ch, t)

\* A step of one task keeps every variable in its set.
LEMMA StepTypes ==
    ASSUME TypeInv, NEW ch \in Channels, NEW t \in Tasks, Step(ch, t)
    PROVE  TypeInv'
<1>0. USE DEF TypeInv, goto
<1>1. CASE Test(ch, t)
  BY <1>1 DEF Test, returning, Places
<1>2. CASE xQueueCreate(ch, t)
  <2>0. /\ created \in [Channels -> Nat]
        /\ created' = [created EXCEPT ![ch] = created[ch] + 1]
    BY <1>2 DEF xQueueCreate
  <2>1. created' \in [Channels -> Nat] /\ created'[ch] \in Nat
    <3> HIDE DEF TypeInv, goto
    <3> QED BY <2>0
  <2>2. ret' \in [Channels -> [Tasks -> Nat]]
    BY <1>2, <2>1 DEF xQueueCreate
  <2> QED BY <1>2, <2>1, <2>2 DEF xQueueCreate, Places
<1>3. CASE Store(ch, t)
  BY <1>3 DEF Store, returning, Places
<1>4. CASE Return(ch, t)
  BY <1>4 DEF Return, Places
<1>5. CASE Assign(ch, t)
  BY <1>5 DEF Assign, Places
<1> QED BY <1>1, <1>2, <1>3, <1>4, <1>5 DEF Step

\* A step touches the state of its own channel only.
LEMMA OtherChannels ==
    ASSUME TypeInv, NEW ch \in Channels, NEW t \in Tasks, Step(ch, t),
           NEW b \in Channels, b # ch
    PROVE  /\ handle'[b] = handle[b] /\ mine'[b] = mine[b] /\ created'[b] = created[b]
           /\ \A u \in Tasks : ret'[b][u] = ret[b][u] /\ pc'[b][u] = pc[b][u]
<1>0. USE DEF TypeInv, goto
<1>1. CASE Test(ch, t)
  BY <1>1 DEF Test
<1>2. CASE xQueueCreate(ch, t)
  BY <1>2 DEF xQueueCreate
<1>3. CASE Store(ch, t)
  BY <1>3 DEF Store
<1>4. CASE Return(ch, t)
  BY <1>4 DEF Return
<1>5. CASE Assign(ch, t)
  BY <1>5 DEF Assign
<1> QED BY <1>1, <1>2, <1>3, <1>4, <1>5 DEF Step

\* What a step does to the entries of its own channel, and that these are numbers.
Local(ch) ==
    /\ handle[ch] \in Nat /\ mine[ch] \in Nat /\ created[ch] \in Nat
    /\ \A u \in Tasks : ret[ch][u] \in Nat /\ pc[ch][u] \in Places

Tests(ch, t) ==
    /\ pc[ch][t] = "test"
    /\ pc'[ch][t] \in (IF handle[ch] = NULL THEN {"create"} ELSE {"return", "run"})
    /\ t = "receiver" => pc'[ch][t] # "run"
    /\ handle'[ch] = handle[ch] /\ mine'[ch] = mine[ch] /\ created'[ch] = created[ch]
    /\ ret'[ch][t] = ret[ch][t]

Creates(ch, t) ==
    /\ pc[ch][t] = "create" /\ pc'[ch][t] = "store"
    /\ created'[ch] = created[ch] + 1 /\ ret'[ch][t] = created[ch] + 1
    /\ handle'[ch] = handle[ch] /\ mine'[ch] = mine[ch]

Stores(ch, t) ==
    /\ pc[ch][t] = "store" /\ pc'[ch][t] \in {"return", "run"}
    /\ t = "receiver" => pc'[ch][t] # "run"
    /\ handle'[ch] = ret[ch][t]
    /\ mine'[ch] = mine[ch] /\ created'[ch] = created[ch] /\ ret'[ch][t] = ret[ch][t]

Returns(ch, t) ==
    /\ pc[ch][t] = "return" /\ pc'[ch][t] = "assign"
    /\ ret'[ch][t] = handle[ch]
    /\ handle'[ch] = handle[ch] /\ mine'[ch] = mine[ch] /\ created'[ch] = created[ch]

Assigns(ch, t) ==
    /\ pc[ch][t] = "assign" /\ pc'[ch][t] = "run"
    /\ IF t = "receiver" THEN mine'[ch] = ret[ch][t] /\ handle'[ch] = handle[ch]
                         ELSE handle'[ch] = ret[ch][t] /\ mine'[ch] = mine[ch]
    /\ created'[ch] = created[ch] /\ ret'[ch][t] = ret[ch][t]

LEMMA Effect ==
    ASSUME TypeInv, NEW ch \in Channels, NEW t \in Tasks, Step(ch, t)
    PROVE  /\ Local(ch)
           /\ \A u \in Tasks : u # t => ret'[ch][u] = ret[ch][u] /\ pc'[ch][u] = pc[ch][u]
           /\ \/ Tests(ch, t) \/ Creates(ch, t) \/ Stores(ch, t)
              \/ Returns(ch, t) \/ Assigns(ch, t)
<1>0. USE DEF TypeInv, goto
<1>1. CASE Test(ch, t)
  BY <1>1 DEF Local, Test, returning, Tests, Tasks
<1>2. CASE xQueueCreate(ch, t)
  BY <1>2 DEF Local, xQueueCreate, Creates
<1>3. CASE Store(ch, t)
  BY <1>3 DEF Local, Store, returning, Stores
<1>4. CASE Return(ch, t)
  BY <1>4 DEF Local, Return, Returns
<1>5. CASE Assign(ch, t)
  BY <1>5 DEF Local, Assign, Assigns
<1> QED BY <1>1, <1>2, <1>3, <1>4, <1>5 DEF Step

\* Within the channel, both invariants are preserved.
LEMMA StepHandles ==
    ASSUME TypeInv, NEW ch \in Channels, NEW t \in Tasks, Step(ch, t), HandleInv(ch)
    PROVE  HandleInv(ch)'
<1>0. /\ Local(ch)
      /\ \A u \in Tasks : u # t => ret'[ch][u] = ret[ch][u] /\ pc'[ch][u] = pc[ch][u]
  BY Effect
<1>a. USE <1>0 DEF Local, HandleInv, Tasks, NULL
<1>1. CASE Tests(ch, t)
  BY <1>1 DEF Tests
<1>2. CASE Creates(ch, t)
  BY <1>2 DEF Creates
<1>3. CASE Stores(ch, t)
  BY <1>3 DEF Stores
<1>4. CASE Returns(ch, t)
  BY <1>4 DEF Returns
<1>5. CASE Assigns(ch, t)
  BY <1>5 DEF Assigns
<1> QED BY <1>1, <1>2, <1>3, <1>4, <1>5, Effect

LEMMA StepAlone ==
    ASSUME TypeInv, NEW ch \in Channels, NEW t \in Tasks, Step(ch, t),
           HandleInv(ch), AloneInv(ch)
    PROVE  AloneInv(ch)'
<1>0. /\ Local(ch)
      /\ \A u \in Tasks : u # t => ret'[ch][u] = ret[ch][u] /\ pc'[ch][u] = pc[ch][u]
  BY Effect
<1>a. USE <1>0 DEF Local, HandleInv, AloneInv, Tasks, NULL
<1>1. CASE Tests(ch, t)
  BY <1>1 DEF Tests
<1>2. CASE Creates(ch, t)
  BY <1>2 DEF Creates
<1>3. CASE Stores(ch, t)
  BY <1>3 DEF Stores
<1>4. CASE Returns(ch, t)
  BY <1>4 DEF Returns
<1>5. CASE Assigns(ch, t)
  BY <1>5 DEF Assigns
<1> QED BY <1>1, <1>2, <1>3, <1>4, <1>5, Effect

\* The invariant is inductive.
LEMMA QInvInit == BootInit => QInv
BY DEF BootInit, QInv, TypeInv, HandleInv, AloneInv, Places, Tasks, NULL

LEMMA QInvNext == QInv /\ [BootNext]_bootVars => QInv'
<1> SUFFICES ASSUME QInv, [BootNext]_bootVars PROVE QInv'
  OBVIOUS
<1>1. CASE UNCHANGED bootVars
  BY <1>1 DEF QInv, TypeInv, HandleInv, AloneInv, bootVars
<1>2. ASSUME NEW ch \in Channels, NEW t \in Tasks, Step(ch, t)
      PROVE  QInv'
  <2>1. TypeInv'
    BY <1>2, StepTypes DEF QInv
  <2>2. ASSUME NEW b \in Channels PROVE HandleInv(b)' /\ AloneInv(b)'
    <3>1. CASE b = ch
      BY <1>2, <3>1, StepHandles, StepAlone DEF QInv
    <3>2. CASE b # ch
      <4>1. /\ handle'[b] = handle[b] /\ mine'[b] = mine[b] /\ created'[b] = created[b]
            /\ \A u \in Tasks : ret'[b][u] = ret[b][u] /\ pc'[b][u] = pc[b][u]
        BY <1>2, <3>2, OtherChannels DEF QInv
      <4>2. HandleInv(b) /\ AloneInv(b)
        BY DEF QInv
      <4> QED BY <4>1, <4>2 DEF HandleInv, AloneInv, Tasks
    <3> QED BY <3>1, <3>2
  <2> QED BY <2>1, <2>2 DEF QInv
<1> QED BY <1>1, <1>2 DEF BootNext, AllRunning, Step

LEMMA QInvHolds == BootSpec => []QInv
BY QInvInit, QInvNext, PTL DEF BootSpec

----------------------------------------------------------------------------
\* In its loop no task uses a handle that no queue has, whatever the order in
\* which sensor and receiver test the handle, create a queue and store it.
THEOREM NoNullHandle == BootSpec => []HandlesAreQueues
<1>1. ASSUME QInv, NEW ch \in Channels
      PROVE  /\ Runs(ch, "sensor") => handle[ch] \in 1..created[ch]
             /\ Runs(ch, "receiver") => mine[ch] \in 1..created[ch]
  <2>1. handle[ch] \in Nat /\ mine[ch] \in Nat /\ created[ch] \in Nat
    BY <1>1 DEF QInv, TypeInv
  <2>2. HandleInv(ch)
    BY <1>1 DEF QInv
  <2> QED BY <2>1, <2>2 DEF HandleInv, Runs, Tasks
<1>2. QInv => HandlesAreQueues
  BY <1>1 DEF HandlesAreQueues
<1> QED BY <1>2, QInvHolds, PTL

\* What the task that comes second finds, step by step: it never creates a
\* queue, and what it has in its hands is the handle.
Second(ch, t, u) ==
    /\ t # u
    /\ Runs(ch, t)
    /\ handle[ch] # NULL
    /\ t = "receiver" => mine[ch] = handle[ch]
    /\ pc[ch][u] \in {"test", "return", "assign", "run"}
    /\ pc[ch][u] = "assign" => ret[ch][u] = handle[ch]
    /\ pc[ch][u] = "run" /\ u = "receiver" => mine[ch] = handle[ch]

LEMMA SecondStep ==
    ASSUME QInv, [BootNext]_bootVars, NEW ch \in Channels, NEW t \in Tasks, NEW u \in Tasks,
           Second(ch, t, u)
    PROVE  Second(ch, t, u)'
<1>0. TypeInv /\ HandleInv(ch)
  BY DEF QInv
<1>1. CASE UNCHANGED bootVars
  BY <1>1 DEF Second, Runs, bootVars
<1>2. ASSUME NEW b \in Channels, NEW v \in Tasks, Step(b, v)
      PROVE  Second(ch, t, u)'
  <2>1. CASE b # ch
    <3>1. /\ handle'[ch] = handle[ch] /\ mine'[ch] = mine[ch]
          /\ \A w \in Tasks : ret'[ch][w] = ret[ch][w] /\ pc'[ch][w] = pc[ch][w]
      BY <1>0, <1>2, <2>1, OtherChannels
    <3> QED BY <3>1 DEF Second, Runs
  <2>2. CASE b = ch
    <3>0. /\ Local(ch)
          /\ \A w \in Tasks : w # v => ret'[ch][w] = ret[ch][w] /\ pc'[ch][w] = pc[ch][w]
      BY <1>0, <1>2, <2>2, Effect
    <3>a. USE <3>0 DEF Local, Second, Runs, Tasks, NULL
    <3>1. CASE Tests(ch, v)
      BY <3>1 DEF Tests
    <3>2. CASE Creates(ch, v)
      BY <3>2 DEF Creates
    <3>3. CASE Stores(ch, v)
      BY <3>3 DEF Stores
    <3>4. CASE Returns(ch, v)
      BY <3>4 DEF Returns
    <3>5. CASE Assigns(ch, v)
      BY <3>5 DEF Assigns
    <3> QED BY <3>1, <3>2, <3>3, <3>4, <3>5, <1>0, <1>2, <2>2, Effect
  <2> QED BY <2>1, <2>2
<1> QED BY <1>1, <1>2 DEF BootNext, AllRunning, Step

\* One of the two came second in every channel that is in apart.
ApartInv ==
    \A ch \in Channels : ch \in apart => \E t, u \in Tasks : Second(ch, t, u)

LEMMA ApartStep ==
    ASSUME QInv, ApartInv, [BootNext]_bootVars
    PROVE  ApartInv'
<1> SUFFICES ASSUME NEW ch \in Channels, ch \in apart'
             PROVE  \E t, u \in Tasks : Second(ch, t, u)'
  BY DEF ApartInv
<1>1. CASE ch \in apart
  BY <1>1, SecondStep DEF ApartInv
<1>2. CASE ch \notin apart
  <2>1. PICK u \in Tasks : Test(ch, u) /\ \E t \in Tasks : Runs(ch, t)
    BY <1>2 DEF BootNext, AllRunning, bootVars, Test, xQueueCreate, Store, Return, Assign,
                lookedAt
  <2>2. PICK t \in Tasks : Runs(ch, t)
    BY <2>1
  <2>3. Second(ch, t, u)
    BY <2>1, <2>2 DEF QInv, TypeInv, HandleInv, AloneInv, Runs, Second, Tasks, NULL, Test
  <2> QED BY <2>3, SecondStep
<1> QED BY <1>1, <1>2

\* A task that is in its loop before the other first tests the handle shares
\* its queue with it from then on: only the simultaneous start can separate
\* sensor and receiver.
THEOREM LateStarterShares == BootSpec => []StartedApartTheyShare
<1>1. BootInit => ApartInv
  BY DEF BootInit, ApartInv
<1>2. QInv /\ ApartInv /\ [BootNext]_bootVars => ApartInv'
  BY ApartStep
<1>3. \A ch, t, u : Second(ch, t, u) /\ t \in Tasks /\ u \in Tasks => Share(ch)
  BY DEF Second, Share, Runs, Tasks
<1>4. apart \subseteq Channels /\ ApartInv => StartedApartTheyShare
  BY <1>3 DEF ApartInv, StartedApartTheyShare
<1>5. BootInit => apart \subseteq Channels
  BY DEF BootInit
<1>6. apart \subseteq Channels /\ [BootNext]_bootVars => (apart \subseteq Channels)'
  BY DEF BootNext, AllRunning, bootVars, Test, xQueueCreate, Store, Return, Assign, lookedAt
<1> QED BY <1>1, <1>2, <1>4, <1>5, <1>6, QInvHolds, PTL DEF BootSpec
====
