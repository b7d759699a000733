---- MODULE MotorProofs ----
(***************************************************************************)
(* What holds of Motor for every set of writers and all limits and bounds. *)
(* All safety results come from one inductive invariant, MotorInv.         *)
(***************************************************************************)
EXTENDS Motor, TLAPS

----------------------------------------------------------------------------
\* Wheels

LEMMA WheelsAt ==
    ASSUME NEW l, NEW r
    PROVE  /\ Wheels(l, r)["LEFT"] = l
           /\ Wheels(l, r)["RIGHT"] = r
BY DEF Wheels, Sides

LEMMA LevelsType ==
    /\ move_stop \in [Sides -> Levels]
    /\ move_straight \in [Sides -> Levels]
    /\ uturn_pwm \in [Sides -> Levels]
    /\ \A m : turn_pwm(m) \in [Sides -> Levels]
BY DEF move_stop, move_straight, uturn_pwm, turn_pwm, slow_speed, Wheels,
       Sides, Levels

LEMMA DirectionsType ==
    /\ move_forward \in [Sides -> {"forward", "backward"}]
    /\ move_backward \in [Sides -> {"forward", "backward"}]
    /\ uturn_dir \in [Sides -> {"forward", "backward"}]
BY DEF move_forward, move_backward, uturn_dir, Wheels, Sides

LEMMA ResetNotch ==
    ASSUME notch_count \in [Sides -> 0..MaxNotch], NEW s \in Sides
    PROVE  /\ reset_notch(s) \in [Sides -> 0..MaxNotch]
           /\ reset_notch(s)[s] = 0
BY BoundsAssumption DEF reset_notch

----------------------------------------------------------------------------
\* Type correctness

LEMMA InitTypeOK == Init => TypeOK
<1> SUFFICES ASSUME Init PROVE TypeOK
    OBVIOUS
<1>1. 0 \in 0..MaxNotch /\ 0 \in 0..MaxWrites
  BY BoundsAssumption
<1>2. notch_count \in [Sides -> 0..MaxNotch]
  BY <1>1 DEF Init
<1>3. motor_command \in [head : Commands \cup {""}, rest : Commands \cup {""}]
  BY DEF Init
<1>4. writing \in [Writers -> Commands \cup {""}]
  BY DEF Init
<1>5. pwm \in [Sides -> Levels] /\ dir \in [Sides -> {"forward", "backward"}]
  BY LevelsType, DirectionsType DEF Init
<1> QED BY <1>1, <1>2, <1>3, <1>4, <1>5 DEF Init, TypeOK

LEMMA BeginType ==
    ASSUME TypeOK, NEW m \in {"left", "right", "uturn"}, Begin(m)
    PROVE  /\ manoeuvre' \in {"", "left", "right", "uturn"}
           /\ turning' \in BOOLEAN
           /\ turns' \in Nat
           /\ UNCHANGED <<motor_command, notch_count, turned, writing, written>>
<1>1. turns \in Nat /\ turns' = turns + 1
  BY DEF TypeOK, Begin
<1>2. turns' \in Nat
  BY <1>1
<1> QED BY <1>2 DEF Begin, wheelVars

LEMMA NextTypeOK == TypeOK /\ [Next]_vars => TypeOK'
<1> SUFFICES ASSUME TypeOK, [Next]_vars PROVE TypeOK'
    OBVIOUS
<1>1. ASSUME NEW m \in {"left", "right"}, ReactTurn(m) PROVE TypeOK'
  <2>1. dir' \in [Sides -> {"forward", "backward"}]
    BY <1>1, DirectionsType DEF ReactTurn
  <2> QED BY <1>1, <2>1, BeginType DEF TypeOK, ReactTurn
<1>2. CASE ReactStop
  <2>1. pwm' \in [Sides -> Levels] /\ dir' \in [Sides -> {"forward", "backward"}]
    BY <1>2, DirectionsType, LevelsType DEF ReactStop
  <2> QED BY <1>2, <2>1, BeginType DEF TypeOK, ReactStop
<1>3. CASE ReactUTurn
  <2>1. pwm' \in [Sides -> Levels]
    BY <1>3, LevelsType DEF ReactUTurn
  <2> QED BY <1>3, <2>1, BeginType DEF TypeOK, ReactUTurn
<1>4. CASE Cruise
  <2>1. pwm' \in [Sides -> Levels]
    BY <1>4, LevelsType DEF Cruise
  <2> QED BY <1>4, <2>1 DEF TypeOK, Cruise, wheelVars
<1>5. CASE Turn
  <2>1. reset_side(manoeuvre) \in Sides
    BY DEF reset_side, Sides
  <2>2. pwm' \in [Sides -> Levels] /\ dir' \in [Sides -> {"forward", "backward"}]
    BY <1>5, DirectionsType, LevelsType DEF Turn
  <2>3. notch_count' \in [Sides -> 0..MaxNotch]
    BY <1>5, <2>1, ResetNotch DEF TypeOK, Turn
  <2> QED BY <1>5, <2>2, <2>3 DEF TypeOK, Turn
<1>6. CASE Spin
  <2>1. dir' \in [Sides -> {"forward", "backward"}]
    BY <1>6 DEF TypeOK, Spin
  <2>2. reset_side("uturn") \in Sides
    BY DEF reset_side, Sides
  <2>3. pwm' \in [Sides -> Levels] /\ notch_count' \in [Sides -> 0..MaxNotch]
    BY <1>6, <2>2, LevelsType, ResetNotch DEF TypeOK, Spin
  <2> QED BY <1>6, <2>1, <2>3 DEF TypeOK, Spin
<1>7. CASE EndTurn
  <2>1. pwm' \in [Sides -> Levels]
    BY <1>7, LevelsType DEF EndTurn
  <2> QED BY <1>7, <2>1 DEF TypeOK, EndTurn, wheelVars
<1>8. CASE EndSpin
  <2>1. dir' \in [Sides -> {"forward", "backward"}]
    BY <1>8 DEF TypeOK, EndSpin, wheelVars
  <2> QED BY <1>8, <2>1 DEF TypeOK, EndSpin, wheelVars
<1>9. CASE Finish
  <2>1. motor_command' \in [head : Commands \cup {""}, rest : Commands \cup {""}]
    BY <1>9 DEF TypeOK, Finish, clear_command
  <2> QED BY <1>9, <2>1 DEF TypeOK, Finish
<1>10. ASSUME NEW s \in Sides, Notch(s) PROVE TypeOK'
  <2>1. notch_count[s] + 1 \in 0..MaxNotch
    <3>1. notch_count[s] \in 0..MaxNotch
      BY DEF TypeOK
    <3> QED BY <1>10, <3>1, BoundsAssumption DEF Notch
  <2>2. notch_count' \in [Sides -> 0..MaxNotch]
    BY <1>10, <2>1 DEF TypeOK, Notch
  <2>3. turned' \in Nat
    <3>1. turned \in Nat /\ (turned' = turned + 1 \/ turned' = turned)
      BY <1>10 DEF TypeOK, Notch
    <3> QED BY <3>1
  <2> QED BY <1>10, <2>2, <2>3 DEF TypeOK, Notch, motorVars
<1>11. ASSUME NEW w \in Writers, WriteRest(w) PROVE TypeOK'
  <2>1. motor_command' \in [head : Commands \cup {""}, rest : Commands \cup {""}]
    BY <1>11 DEF TypeOK, WriteRest
  <2>2. writing' \in [Writers -> Commands \cup {""}]
    BY <1>11 DEF TypeOK, WriteRest
  <2> QED BY <1>11, <2>1, <2>2 DEF TypeOK, WriteRest, motorVars, wheelVars
<1>12. ASSUME NEW w \in Writers, NEW c \in Sends[w], WriteHead(w, c)
       PROVE TypeOK'
  <2>1. c \in Commands
    BY SendsAssumption
  <2>2. motor_command' \in [head : Commands \cup {""}, rest : Commands \cup {""}]
    BY <1>12, <2>1 DEF TypeOK, WriteHead
  <2>3. writing' \in [Writers -> Commands \cup {""}]
    BY <1>12, <2>1 DEF TypeOK, WriteHead
  <2>4. written' \in 0..MaxWrites
    <3>1. written \in 0..MaxWrites /\ written < MaxWrites /\ written' = written + 1
      BY <1>12 DEF TypeOK, WriteHead
    <3> QED BY <3>1, BoundsAssumption
  <2> QED BY <1>12, <2>2, <2>3, <2>4 DEF TypeOK, WriteHead, motorVars, wheelVars
<1>13. CASE UNCHANGED vars
  BY <1>13 DEF TypeOK, vars, motorVars, wheelVars
<1> QED
  BY <1>1, <1>2, <1>3, <1>4, <1>5, <1>6, <1>7, <1>8, <1>9, <1>10, <1>11,
     <1>12, <1>13 DEF Next, MotorStep

\* Every variable stays in its set.
THEOREM TypeCorrect == SafetySpec => []TypeOK
BY InitTypeOK, NextTypeOK, PTL DEF SafetySpec

----------------------------------------------------------------------------
\* The phase, the flag and the wheels

LEMMA InitPhaseWheel == Init => PhaseInv /\ WheelInv
<1> SUFFICES ASSUME Init PROVE PhaseInv /\ WheelInv
    OBVIOUS
<1>1. mPc = "delay" /\ manoeuvre = "" /\ turning = FALSE
  BY DEF Init
<1>2. dir = move_forward /\ pwm = move_straight
  BY DEF Init
<1>3. PhaseInv
  BY <1>1 DEF PhaseInv
<1>4. WheelInv
  BY <1>1, <1>2 DEF WheelInv
<1> QED BY <1>3, <1>4

\* The directions in each phase, without the CASE.
DirInv ==
    /\ mPc = "back" => dir = move_backward
    /\ mPc = "spin" => dir = uturn_dir
    /\ mPc \notin {"back", "spin"} => dir = move_forward

LEMMA DirCases ==
    ASSUME WheelInv PROVE DirInv
BY DEF WheelInv, DirInv

\* Undoing the reversal of the right wheel, and making it.
LEMMA RightWheel ==
    /\ [move_forward EXCEPT !["RIGHT"] = "backward"] = uturn_dir
    /\ [uturn_dir EXCEPT !["RIGHT"] = "forward"] = move_forward
BY DEF move_forward, uturn_dir, Wheels, Sides

\* What one step of the motor task does to phase and wheels.
LEMMA NextPhaseWheel ==
    TypeOK /\ PhaseInv /\ WheelInv /\ [Next]_vars => PhaseInv' /\ WheelInv'
<1> SUFFICES ASSUME TypeOK, PhaseInv, WheelInv, [Next]_vars
             PROVE PhaseInv' /\ WheelInv'
    OBVIOUS
<1>0. DirInv
  BY DirCases
<1>1. ASSUME NEW m \in {"left", "right"}, ReactTurn(m) PROVE PhaseInv' /\ WheelInv'
  <2>1. mPc = "delay" /\ mPc' = "back" /\ manoeuvre' = m /\ turning' = TRUE
    BY <1>1 DEF ReactTurn, Poll, Begin
  <2>2. dir' = move_backward /\ pwm' = pwm
    BY <1>1 DEF ReactTurn
  <2>3. pwm \in {move_straight, uturn_pwm}
    BY <2>1 DEF WheelInv
  <2> QED BY <2>1, <2>2, <2>3 DEF PhaseInv, WheelInv
<1>2. CASE ReactStop
  <2>1. mPc' = "back" /\ manoeuvre' = "left" /\ turning' = TRUE
    BY <1>2 DEF ReactStop, Begin
  <2>2. dir' = move_backward /\ pwm' = move_stop
    BY <1>2 DEF ReactStop
  <2> QED BY <2>1, <2>2 DEF PhaseInv, WheelInv
<1>3. CASE ReactUTurn
  <2>1. mPc = "delay" /\ mPc' = "halt" /\ manoeuvre' = "uturn" /\ turning' = TRUE
    BY <1>3 DEF ReactUTurn, Poll, Begin
  <2>2. dir' = move_forward /\ pwm' = move_stop
    BY <1>0, <1>3, <2>1 DEF ReactUTurn, DirInv
  <2> QED BY <2>1, <2>2 DEF PhaseInv, WheelInv
<1>4. CASE Cruise
  <2>1. mPc = "delay" /\ UNCHANGED <<mPc, manoeuvre, turning>>
    BY <1>4 DEF Cruise
  <2>2. dir' = move_forward /\ pwm' = move_straight
    BY <1>0, <1>4, <2>1 DEF Cruise, DirInv
  <2> QED BY <2>1, <2>2 DEF PhaseInv, WheelInv
<1>5. CASE Turn
  <2>1. mPc = "back" /\ mPc' = "turn" /\ UNCHANGED <<manoeuvre, turning>>
    BY <1>5 DEF Turn
  <2>2. dir' = move_forward /\ pwm' = turn_pwm(manoeuvre)
    BY <1>5 DEF Turn
  <2>3. pwm' = turn_pwm(manoeuvre')
    BY <2>1, <2>2
  <2> QED BY <2>1, <2>2, <2>3 DEF PhaseInv, WheelInv
<1>6. CASE Spin
  <2>1. mPc = "halt" /\ mPc' = "spin" /\ UNCHANGED <<manoeuvre, turning>>
    BY <1>6 DEF Spin
  <2>2. dir' = uturn_dir /\ pwm' = uturn_pwm
    BY <1>0, <1>6, <2>1, RightWheel DEF Spin, DirInv
  <2> QED BY <2>1, <2>2 DEF PhaseInv, WheelInv
<1>7. CASE EndTurn
  <2>1. mPc = "turn" /\ mPc' = "settle" /\ UNCHANGED <<manoeuvre, turning>>
    BY <1>7 DEF EndTurn
  <2>2. dir' = move_forward /\ pwm' = move_straight
    BY <1>0, <1>7, <2>1 DEF EndTurn, DirInv
  <2> QED BY <2>1, <2>2 DEF PhaseInv, WheelInv
<1>8. CASE EndSpin
  <2>1. mPc = "spin" /\ mPc' = "settle" /\ UNCHANGED <<manoeuvre, turning>>
    BY <1>8 DEF EndSpin
  <2>2. dir' = move_forward /\ pwm' = pwm
    BY <1>0, <1>8, <2>1, RightWheel DEF EndSpin, DirInv
  <2>3. pwm = uturn_pwm
    BY <2>1 DEF WheelInv
  <2> QED BY <2>1, <2>2, <2>3 DEF PhaseInv, WheelInv
<1>9. CASE Finish
  <2>1. mPc = "settle" /\ mPc' = "delay" /\ manoeuvre' = "" /\ turning' = FALSE
    BY <1>9 DEF Finish
  <2>2. dir' = move_forward /\ pwm' = pwm
    BY <1>0, <1>9, <2>1 DEF Finish, DirInv
  <2>3. pwm \in {move_straight, uturn_pwm}
    BY <2>1 DEF WheelInv
  <2> QED BY <2>1, <2>2, <2>3 DEF PhaseInv, WheelInv
<1>10. CASE UNCHANGED motorVars
  BY <1>10 DEF motorVars, PhaseInv, WheelInv
<1>11. ASSUME NEW s \in Sides, Notch(s) PROVE UNCHANGED motorVars
  BY <1>11 DEF Notch
<1>12. ASSUME NEW w \in Writers, WriteRest(w) PROVE UNCHANGED motorVars
  BY <1>12 DEF WriteRest
<1>13. ASSUME NEW w \in Writers, NEW c \in Sends[w], WriteHead(w, c)
       PROVE UNCHANGED motorVars
  BY <1>13 DEF WriteHead
<1>14. UNCHANGED vars => UNCHANGED motorVars
  BY DEF vars
<1> QED
  BY <1>1, <1>2, <1>3, <1>4, <1>5, <1>6, <1>7, <1>8, <1>9, <1>10, <1>11,
     <1>12, <1>13, <1>14 DEF Next, MotorStep

----------------------------------------------------------------------------
\* The notches of a manoeuvre: turn_left, turn_right and u_turn reset and watch
\* the counter of one wheel, the one on the outside.

LEMMA OneWheel ==
    ASSUME manoeuvre \in {"left", "right", "uturn"}
    PROVE  /\ reset_side(manoeuvre) = outside
           /\ watched_side(manoeuvre) = outside
           /\ outside \in Sides
BY DEF reset_side, watched_side, outside, Sides

LEMMA NextNotch ==
    TypeOK /\ PhaseInv /\ NotchInv /\ [Next]_vars => NotchInv'
<1> SUFFICES ASSUME TypeOK, PhaseInv, NotchInv, [Next]_vars PROVE NotchInv'
    OBVIOUS
<1>0. notch_count \in [Sides -> 0..MaxNotch] /\ turned \in Nat
  BY DEF TypeOK
<1>1. CASE Turn
  <2>1. mPc' = "turn" /\ manoeuvre' = manoeuvre /\ manoeuvre \in {"left", "right"}
    BY <1>1 DEF Turn, PhaseInv
  <2>2. outside' = outside /\ reset_side(manoeuvre) = outside /\ outside \in Sides
    BY <2>1, OneWheel DEF outside
  <2>3. notch_count' = reset_notch(outside) /\ turned' = 0
    BY <1>1, <2>2 DEF Turn
  <2>4. notch_count'[outside'] = 0
    BY <1>0, <2>2, <2>3, ResetNotch
  <2> QED BY <2>1, <2>3, <2>4 DEF NotchInv, ManoeuvreIsFull
<1>2. CASE Spin
  <2>1. mPc' = "spin" /\ manoeuvre' = manoeuvre /\ manoeuvre = "uturn"
    BY <1>2 DEF Spin, PhaseInv
  <2>2. outside' = outside /\ reset_side("uturn") = outside /\ outside \in Sides
    BY <2>1, OneWheel DEF outside
  <2>3. notch_count' = reset_notch(outside) /\ turned' = 0
    BY <1>2, <2>2 DEF Spin
  <2>4. notch_count'[outside'] = 0
    BY <1>0, <2>2, <2>3, ResetNotch
  <2> QED BY <2>1, <2>3, <2>4 DEF NotchInv, ManoeuvreIsFull
<1>3. CASE EndTurn
  <2>1. /\ mPc = "turn" /\ manoeuvre \in {"left", "right"}
        /\ UNCHANGED <<manoeuvre, notch_count, turned>>
    BY <1>3 DEF EndTurn, PhaseInv, wheelVars
  <2>2. turned = notch_count[outside] /\ outside' = outside
    BY <2>1 DEF NotchInv, Performing, outside
  <2>3. turned > TurnLimit
    BY <1>3, <2>1, <2>2, OneWheel DEF EndTurn
  <2> QED BY <2>1, <2>2, <2>3 DEF NotchInv, ManoeuvreIsFull
<1>4. CASE EndSpin
  <2>1. /\ mPc = "spin" /\ manoeuvre = "uturn"
        /\ UNCHANGED <<manoeuvre, notch_count, turned>>
    BY <1>4 DEF EndSpin, PhaseInv, wheelVars
  <2>2. turned = notch_count[outside] /\ outside' = outside
    BY <2>1 DEF NotchInv, Performing, outside
  <2>3. turned > UTurnLimit
    BY <1>4, <2>1, <2>2, OneWheel DEF EndSpin
  <2> QED BY <2>1, <2>2, <2>3 DEF NotchInv, ManoeuvreIsFull
<1>5. CASE \/ \E m \in {"left", "right"} : ReactTurn(m)
           \/ ReactStop \/ ReactUTurn \/ Cruise \/ Finish
  <2>1. mPc' \in {"back", "halt", "delay"}
    BY <1>5 DEF ReactTurn, ReactStop, ReactUTurn, Cruise, Finish
  <2> QED BY <2>1 DEF NotchInv, Performing, ManoeuvreIsFull
<1>6. ASSUME NEW s \in Sides, Notch(s) PROVE NotchInv'
  <2>1. UNCHANGED <<mPc, manoeuvre>>
    BY <1>6 DEF Notch, motorVars
  <2>2. outside' = outside /\ Performing' = Performing
    BY <2>1 DEF outside, Performing
  <2>3. notch_count' = [notch_count EXCEPT ![s] = notch_count[s] + 1]
    BY <1>6 DEF Notch
  <2>4. CASE Performing /\ s = outside
    <3>1. turned' = turned + 1 /\ notch_count'[outside] = notch_count[outside] + 1
      BY <1>0, <1>6, <2>3, <2>4 DEF Notch
    <3>2. mPc = "settle" =>
            turned + 1 > (IF manoeuvre = "uturn" THEN UTurnLimit ELSE TurnLimit)
      BY <1>0, BoundsAssumption DEF NotchInv, ManoeuvreIsFull
    <3> QED BY <2>1, <2>2, <2>4, <3>1, <3>2 DEF NotchInv, ManoeuvreIsFull
  <2>5. CASE ~(Performing /\ s = outside)
    <3>1. turned' = turned
      BY <1>6, <2>5 DEF Notch
    <3>2. Performing => notch_count'[outside] = notch_count[outside]
      <4>1. outside \in Sides
        BY DEF outside, Sides
      <4> QED BY <1>0, <2>3, <2>5, <4>1
    <3> QED BY <2>1, <2>2, <3>1, <3>2 DEF NotchInv, ManoeuvreIsFull
  <2> QED BY <2>4, <2>5
<1>7. CASE UNCHANGED <<mPc, manoeuvre, notch_count, turned>>
  BY <1>7 DEF NotchInv, Performing, outside, ManoeuvreIsFull
<1>8. ASSUME NEW w \in Writers, WriteRest(w) PROVE NotchInv'
  BY <1>7, <1>8 DEF WriteRest, motorVars, wheelVars
<1>9. ASSUME NEW w \in Writers, NEW c \in Sends[w], WriteHead(w, c) PROVE NotchInv'
  BY <1>7, <1>9 DEF WriteHead, motorVars, wheelVars
<1>10. CASE UNCHANGED vars
  BY <1>7, <1>10 DEF vars, motorVars, wheelVars
<1> QED
  BY <1>1, <1>2, <1>3, <1>4, <1>5, <1>6, <1>8, <1>9, <1>10 DEF Next, MotorStep

----------------------------------------------------------------------------
\* The account of writes and manoeuvres

LEMMA CountTypes ==
    ASSUME TypeOK
    PROVE  turns \in Nat /\ written \in Nat /\ pending \in Nat /\ pending <= 1
<1>1. written \in 0..MaxWrites /\ turns \in Nat
  BY DEF TypeOK
<1>2. written \in Nat
  BY <1>1, BoundsAssumption
<1>3. pending \in Nat /\ pending <= 1
  BY DEF pending
<1> QED BY <1>1, <1>2, <1>3

LEMMA NextCount ==
    TypeOK /\ PhaseInv /\ CountInv /\ [Next]_vars => CountInv'
<1> SUFFICES ASSUME TypeOK, PhaseInv, CountInv, [Next]_vars PROVE CountInv'
    OBVIOUS
<1>1. turns \in Nat /\ written \in Nat
  BY CountTypes
<1>2. /\ pending = 0 \/ pending = 1
      /\ pending' = 0 \/ pending' = 1
  BY DEF pending
<1>3. turns + pending <= written
  BY DEF CountInv
<1>4. ASSUME NEW c \in Commands, Poll(c), mPc' # "delay", turns' = turns + 1,
             written' = written
      PROVE  CountInv'
  <2>1. pending = 1
    BY <1>4 DEF Poll, Received, pending, Commands
  <2>2. pending' = 0
    BY <1>4 DEF pending
  <2> QED BY <1>1, <1>3, <1>4, <2>1, <2>2 DEF CountInv
<1>5. ASSUME pending' = 0 \/ pending' = pending, UNCHANGED <<turns, written>>
      PROVE  CountInv'
  <2>1. turns' = turns /\ written' = written
    BY <1>5
  <2>2. CASE pending' = pending
    BY <1>3, <2>1, <2>2 DEF CountInv
  <2>3. CASE pending' = 0
    BY <1>1, <1>2, <1>3, <2>1, <2>3 DEF CountInv
  <2> QED BY <1>5, <2>2, <2>3
<1>6. ASSUME NEW m \in {"left", "right"}, ReactTurn(m) PROVE CountInv'
  <2>1. m \in Commands
    BY DEF Commands
  <2> QED BY <1>4, <1>6, <2>1 DEF ReactTurn, Begin
<1>7. CASE ReactStop
  <2>1. "stop" \in Commands
    BY DEF Commands
  <2> QED BY <1>4, <1>7, <2>1 DEF ReactStop, Begin
<1>8. CASE ReactUTurn
  <2>1. "uturn" \in Commands
    BY DEF Commands
  <2> QED BY <1>4, <1>8, <2>1 DEF ReactUTurn, Begin
<1>9. CASE Cruise
  <2>1. pending' = pending
    BY <1>9 DEF Cruise, pending
  <2> QED BY <1>5, <1>9, <2>1 DEF Cruise
<1>10. CASE Turn \/ Spin \/ EndTurn \/ EndSpin
  <2>1. pending' = 0
    BY <1>10 DEF Turn, Spin, EndTurn, EndSpin, pending
  <2> QED BY <1>5, <1>10, <2>1 DEF Turn, Spin, EndTurn, EndSpin
<1>11. CASE Finish
  <2>1. motor_command'.head = ""
    BY <1>11 DEF Finish, clear_command, TypeOK
  <2>2. pending' = 0
    BY <2>1 DEF pending
  <2> QED BY <1>5, <1>11, <2>2 DEF Finish
<1>12. ASSUME NEW s \in Sides, Notch(s) PROVE CountInv'
  <2>1. pending' = pending
    BY <1>12 DEF Notch, pending, motorVars
  <2> QED BY <1>5, <1>12, <2>1 DEF Notch
<1>13. ASSUME NEW w \in Writers, WriteRest(w) PROVE CountInv'
  <2>1. motor_command'.head = motor_command.head /\ mPc' = mPc
    BY <1>13 DEF WriteRest, TypeOK, motorVars
  <2>2. pending' = pending
    BY <2>1 DEF pending
  <2> QED BY <1>5, <1>13, <2>2 DEF WriteRest
<1>14. ASSUME NEW w \in Writers, NEW c \in Sends[w], WriteHead(w, c)
       PROVE CountInv'
  <2>1. turns' = turns /\ written' = written + 1
    BY <1>14 DEF WriteHead
  <2>2. CASE pending = 0
    BY <1>1, <1>2, <1>3, <2>1, <2>2 DEF CountInv
  <2>3. CASE pending = 1
    BY <1>1, <1>2, <1>3, <2>1, <2>3 DEF CountInv
  <2> QED BY <1>2, <2>2, <2>3
<1>15. CASE UNCHANGED vars
  <2>1. pending' = pending
    BY <1>15 DEF vars, motorVars, pending
  <2> QED BY <1>5, <1>15, <2>1 DEF vars
<1> QED
  BY <1>6, <1>7, <1>8, <1>9, <1>10, <1>11, <1>12, <1>13, <1>14, <1>15
  DEF Next, MotorStep

----------------------------------------------------------------------------
\* Safety

\* The inductive invariant: in every phase the flag, the manoeuvre on the
\* stack, the direction pins, the PWM levels, the notches of the manoeuvre and
\* the account of writes are those the phase requires.
THEOREM InvariantHolds == SafetySpec => []MotorInv
<1>1. Init => MotorInv
  <2>1. Init => CountInv
    <3> SUFFICES ASSUME Init PROVE CountInv
        OBVIOUS
    <3>1. turns = 0 /\ written = 0
      BY DEF Init
    <3>2. motor_command.head = ""
      BY DEF Init
    <3>3. pending = 0
      BY <3>2 DEF pending
    <3> QED BY <3>1, <3>3 DEF CountInv
  <2>2. Init => NotchInv
    BY DEF Init, NotchInv, Performing, ManoeuvreIsFull
  <2> QED BY <2>1, <2>2, InitTypeOK, InitPhaseWheel DEF MotorInv
<1>2. MotorInv /\ [Next]_vars => MotorInv'
  BY NextTypeOK, NextPhaseWheel, NextNotch, NextCount DEF MotorInv
<1> QED BY <1>1, <1>2, PTL DEF SafetySpec

\* However a write to the mailbox is interrupted, it starts no more than one
\* manoeuvre.
THEOREM AtMostOneTurn == SafetySpec => []OneTurnPerCommand
<1>1. MotorInv => OneTurnPerCommand
  <2> SUFFICES ASSUME MotorInv PROVE OneTurnPerCommand
      OBVIOUS
  <2>1. turns \in Nat /\ written \in Nat /\ pending \in Nat
    BY CountTypes DEF MotorInv
  <2>2. turns + pending <= written
    BY DEF MotorInv, CountInv
  <2> QED BY <2>1, <2>2 DEF OneTurnPerCommand
<1> QED BY <1>1, InvariantHolds, PTL

\* The busy-waits at the highest priority watch a driven wheel.
THEOREM WaitsOnDrivenWheel == SafetySpec => []BusyWaitOnDrivenWheel
<1>1. MotorInv => BusyWaitOnDrivenWheel
  <2> SUFFICES ASSUME MotorInv, BusyWaiting PROVE pwm[watched_side(manoeuvre)] # "off"
      BY DEF BusyWaitOnDrivenWheel
  <2>1. CASE mPc = "turn"
    <3>1. manoeuvre \in {"left", "right"} /\ pwm = turn_pwm(manoeuvre)
      BY <2>1 DEF MotorInv, PhaseInv, WheelInv
    <3> QED BY <3>1, WheelsAt DEF watched_side, turn_pwm
  <2>2. CASE mPc = "spin"
    <3>1. manoeuvre = "uturn" /\ pwm = uturn_pwm
      BY <2>2 DEF MotorInv, PhaseInv, WheelInv
    <3> QED BY <3>1, WheelsAt DEF watched_side, uturn_pwm
  <2> QED BY <2>1, <2>2 DEF BusyWaiting
<1> QED BY <1>1, InvariantHolds, PTL

\* No exit from a manoeuvre leaves a wheel reversed or stopped.
THEOREM PollsAhead == SafetySpec => []PollsRunningAhead
<1>1. MotorInv => PollsRunningAhead
  <2> SUFFICES ASSUME MotorInv, mPc = "delay"
               PROVE  /\ turning = FALSE
                      /\ \A s \in Sides : pwm[s] # "off" /\ dir[s] = "forward"
      BY DEF PollsRunningAhead
  <2>1. turning = FALSE
    BY DEF MotorInv, PhaseInv
  <2>2. pwm \in {move_straight, uturn_pwm} /\ dir = move_forward
    BY DEF MotorInv, WheelInv
  <2>3. ASSUME NEW s \in Sides PROVE s = "LEFT" \/ s = "RIGHT"
    BY DEF Sides
  <2>4. ASSUME NEW s \in Sides PROVE dir[s] = "forward"
    BY <2>2, <2>3, WheelsAt DEF move_forward
  <2>5. ASSUME NEW s \in Sides PROVE pwm[s] # "off"
    BY <2>2, <2>3, WheelsAt DEF move_straight, uturn_pwm
  <2> QED BY <2>1, <2>4, <2>5
<1> QED BY <1>1, InvariantHolds, PTL

\* A manoeuvre is over only after the wheel on its outside has made its notches
\* in this manoeuvre.
THEOREM ManoeuvresAreFull == SafetySpec => []ManoeuvreIsFull
<1>1. MotorInv => ManoeuvreIsFull
  BY DEF MotorInv, NotchInv
<1> QED BY <1>1, InvariantHolds, PTL

----------------------------------------------------------------------------
\* Motor implements CarMotion (all of it but the fairness)

\* How the wheels turn under each setting of levels and pins.
LEMMA Movements ==
    /\ \A p \in {move_straight, uturn_pwm} :
          /\ Movement(p, move_forward) = Car!Ahead
          /\ Movement(p, move_backward) = Car!Reverse
    /\ \A d : Movement(move_stop, d) = Car!Halt
    /\ \A m \in {"left", "right"} :
          Movement(turn_pwm(m), move_forward) = Car!Performing(m)
    /\ Movement(uturn_pwm, uturn_dir) = Car!Performing("uturn")
<1> USE DEF Movement, Wheels, Sides, Car!Sides, Car!Both
<1>1. ASSUME NEW p \in {move_straight, uturn_pwm}
      PROVE  /\ Movement(p, move_forward) = Car!Ahead
             /\ Movement(p, move_backward) = Car!Reverse
  BY DEF move_straight, uturn_pwm, move_forward, move_backward,
         Car!Ahead, Car!Reverse
<1>2. ASSUME NEW d PROVE Movement(move_stop, d) = Car!Halt
  BY DEF move_stop, Car!Halt
<1>3. Movement(turn_pwm("left"), move_forward) = Car!Performing("left")
  BY DEF turn_pwm, slow_speed, move_forward, Car!Performing, Car!Ahead
<1>4. Movement(turn_pwm("right"), move_forward) = Car!Performing("right")
  BY DEF turn_pwm, slow_speed, move_forward, Car!Performing, Car!Ahead
<1>5. Movement(uturn_pwm, uturn_dir) = Car!Performing("uturn")
  BY DEF uturn_pwm, uturn_dir, Car!Performing, Car!Ahead
<1> QED BY <1>1, <1>2, <1>3, <1>4, <1>5

\* A step that leaves manoeuvre, levels and pins alone is invisible.
LEMMA Stutter ==
    ASSUME UNCHANGED <<manoeuvre, pwm, dir>>
    PROVE  UNCHANGED Car!vars
BY DEF Car!vars, Movement

LEMMA StepImplements ==
    ASSUME MotorInv, [Next]_vars
    PROVE  [Car!Next]_(Car!vars)
<1>0. DirInv /\ PhaseInv /\ WheelInv
  BY DirCases DEF MotorInv
<1>1. ASSUME NEW m \in {"left", "right"}, ReactTurn(m) PROVE Car!Prepare(m)
  <2>1. manoeuvre = "" /\ manoeuvre' = m
    BY <1>0, <1>1 DEF PhaseInv, ReactTurn, Poll, Begin
  <2>2. pwm \in {move_straight, uturn_pwm} /\ pwm' = pwm /\ dir' = move_backward
    BY <1>0, <1>1 DEF WheelInv, ReactTurn, Poll
  <2>3. Movement(pwm, dir)' = Car!Reverse
    BY <2>2, Movements
  <2> QED BY <2>1, <2>3 DEF Car!Prepare
<1>2. CASE ReactStop
  <2>1. manoeuvre = "" /\ manoeuvre' = "left"
    BY <1>0, <1>2 DEF PhaseInv, ReactStop, Poll, Begin
  <2>2. Movement(pwm, dir)' = Car!Halt
    BY <1>2, Movements DEF ReactStop
  <2>3. Car!Prepare("left")
    BY <2>1, <2>2 DEF Car!Prepare
  <2> QED BY <2>3 DEF Car!Next, Car!Goals
<1>3. CASE ReactUTurn
  <2>1. manoeuvre = "" /\ manoeuvre' = "uturn"
    BY <1>0, <1>3 DEF PhaseInv, ReactUTurn, Poll, Begin
  <2>2. Movement(pwm, dir)' = Car!Halt
    BY <1>3, Movements DEF ReactUTurn
  <2>3. Car!Prepare("uturn")
    BY <2>1, <2>2 DEF Car!Prepare
  <2> QED BY <2>3 DEF Car!Next, Car!Goals
<1>4. CASE Cruise
  <2>1. /\ pwm \in {move_straight, uturn_pwm} /\ pwm' = move_straight
        /\ dir = move_forward /\ dir' = dir /\ manoeuvre' = manoeuvre
    BY <1>0, <1>4 DEF WheelInv, DirInv, Cruise
  <2>2. Movement(pwm, dir) = Car!Ahead /\ Movement(pwm, dir)' = Car!Ahead
    BY <2>1, Movements
  <2> QED BY <2>1, <2>2 DEF Car!vars
<1>5. CASE Turn
  <2>1. manoeuvre \in {"left", "right"} /\ manoeuvre' = manoeuvre
    BY <1>0, <1>5 DEF PhaseInv, Turn
  <2>2. dir = move_backward /\ pwm \in {move_straight, uturn_pwm, move_stop}
    BY <1>0, <1>5 DEF DirInv, WheelInv, Turn
  <2>3. Movement(pwm, dir) \in {Car!Reverse, Car!Halt}
    BY <2>2, Movements
  <2>4. Movement(pwm, dir)' = Car!Performing(manoeuvre)
    BY <1>5, <2>1, Movements DEF Turn
  <2> QED BY <2>1, <2>3, <2>4 DEF Car!Next, Car!Progress, Car!Perform
<1>6. CASE Spin
  <2>1. manoeuvre = "uturn" /\ manoeuvre' = manoeuvre
    BY <1>0, <1>6 DEF PhaseInv, Spin
  <2>2. dir = move_forward /\ pwm = move_stop
    BY <1>0, <1>6 DEF DirInv, WheelInv, Spin
  <2>3. Movement(pwm, dir) = Car!Halt
    BY <2>2, Movements
  <2>4. dir' = uturn_dir /\ pwm' = uturn_pwm
    BY <1>6, <2>2, RightWheel DEF Spin
  <2>5. Movement(pwm, dir)' = Car!Performing(manoeuvre)
    BY <2>1, <2>4, Movements
  <2> QED BY <2>1, <2>3, <2>5 DEF Car!Next, Car!Progress, Car!Perform
<1>7. CASE EndTurn
  <2>1. manoeuvre \in {"left", "right"} /\ manoeuvre' = manoeuvre
    BY <1>0, <1>7 DEF PhaseInv, EndTurn
  <2>2. dir = move_forward /\ pwm = turn_pwm(manoeuvre)
    BY <1>0, <1>7 DEF DirInv, WheelInv, EndTurn
  <2>3. Movement(pwm, dir) = Car!Performing(manoeuvre)
    BY <2>1, <2>2, Movements
  <2>4. Movement(pwm, dir)' = Car!Ahead
    BY <1>7, <2>2, Movements DEF EndTurn
  <2> QED BY <2>1, <2>3, <2>4 DEF Car!Next, Car!Progress, Car!Recover
<1>8. CASE EndSpin
  <2>1. manoeuvre = "uturn" /\ manoeuvre' = manoeuvre
    BY <1>0, <1>8 DEF PhaseInv, EndSpin
  <2>2. dir = uturn_dir /\ pwm = uturn_pwm
    BY <1>0, <1>8 DEF DirInv, WheelInv, EndSpin
  <2>3. Movement(pwm, dir) = Car!Performing(manoeuvre)
    BY <2>1, <2>2, Movements
  <2>4. dir' = move_forward /\ pwm' = uturn_pwm
    BY <1>8, <2>2, RightWheel DEF EndSpin
  <2>5. Movement(pwm, dir)' = Car!Ahead
    BY <2>4, Movements
  <2> QED BY <2>1, <2>3, <2>5 DEF Car!Next, Car!Progress, Car!Recover
<1>9. CASE Finish
  <2>1. manoeuvre # "" /\ manoeuvre' = "" /\ UNCHANGED <<pwm, dir>>
    BY <1>0, <1>9 DEF PhaseInv, Finish
  <2>2. dir = move_forward /\ pwm \in {move_straight, uturn_pwm}
    BY <1>0, <1>9 DEF DirInv, WheelInv, Finish
  <2>3. Movement(pwm, dir) = Car!Ahead /\ Movement(pwm, dir)' = Movement(pwm, dir)
    BY <2>1, <2>2, Movements
  <2> QED BY <2>1, <2>3 DEF Car!Next, Car!Progress, Car!Accept
<1>10. CASE UNCHANGED motorVars
  BY <1>10, Stutter DEF motorVars
<1>11. ASSUME NEW s \in Sides, Notch(s) PROVE UNCHANGED motorVars
  BY <1>11 DEF Notch
<1>12. ASSUME NEW w \in Writers, WriteRest(w) PROVE UNCHANGED motorVars
  BY <1>12 DEF WriteRest
<1>13. ASSUME NEW w \in Writers, NEW c \in Sends[w], WriteHead(w, c)
       PROVE UNCHANGED motorVars
  BY <1>13 DEF WriteHead
<1>14. UNCHANGED vars => UNCHANGED motorVars
  BY DEF vars
<1>15. ASSUME NEW m \in {"left", "right"}, ReactTurn(m) PROVE Car!Next
  BY <1>1, <1>15 DEF Car!Next, Car!Goals
<1> QED
  BY <1>2, <1>3, <1>4, <1>5, <1>6, <1>7, <1>8, <1>9, <1>10, <1>11, <1>12,
     <1>13, <1>14, <1>15 DEF Next, MotorStep

\* The safety part of Implements: the wheels start as CarMotion prescribes,
\* and every step of the controller, its environment included, is one of
\* CarMotion's or invisible to it.
THEOREM ImplementsSafety == SafetySpec => Car!Init /\ [][Car!Next]_(Car!vars)
<1>1. Init => Car!Init
  <2>1. ASSUME Init PROVE Movement(pwm, dir) = Car!Ahead
    BY <2>1, Movements DEF Init
  <2> QED BY <2>1 DEF Init, Car!Init
<1>2. MotorInv /\ [Next]_vars => [Car!Next]_(Car!vars)
  BY StepImplements
<1> QED BY <1>1, <1>2, InvariantHolds, PTL DEF SafetySpec
====
