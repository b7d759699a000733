---- MODULE MCMotor ----
(***************************************************************************)
(* Instances of Motor for TLC.                                             *)
(***************************************************************************)
EXTENDS Motor

\* Both receiver tasks; "stop=1" has no sender in the repository,
\* but motor.c reacts to it.
MCWriters == {"recv_ir", "recv_ultrasonic"}
MCSends   == [recv_ir |-> {"left", "right"}, recv_ultrasonic |-> {"uturn", "stop"}]

\* The firmware as main.c starts it: the ultrasonic task is not created.
IRWriter == {"recv_ir"}
IRSends  == [recv_ir |-> {"left", "right"}]

\* The literals of motor.c: 4, and degree_to_notch(180) * 2.2 + 1 truncated.
CodeTurnLimit  == 4
CodeUTurnLimit == (degree_to_notch(180) * 22 + 10) \div 10
====
