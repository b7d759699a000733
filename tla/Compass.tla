---- MODULE Compass ----
(***************************************************************************)
(* The task of magnetometer.c, which main.c does not start.  Each pass     *)
(* reads six 16-bit values from the sensor, each as two registers of a     *)
(* byte; the C language does not say which of the two is read first.  The  *)
(* sensor stores a new sample whenever it has one: block data update, bit  *)
(* 7 of the control register, is not set by the value 0x23.                *)
(***************************************************************************)
EXTENDS Integers

CONSTANTS
    Axes,       \* how many values a pass reads (6)
    Field       \* values a sample may have, int16_t

Halves == {"low", "high"}

VARIABLES
    sample,     \* sample[a]: what the sensor holds
    axis,       \* the value that is being read, Axes + 1 after the last one
    unread,     \* the registers of it still to be read
    bytes,      \* those that have been read
    filtered,   \* filtered[a]: ax, ay, az, mx, my, mz after the filter
    source      \* history: source[a]: the sample when the high byte was read

vars == <<sample, axis, unread, bytes, filtered, source>>

Init ==
    /\ sample \in [1..Axes -> Field]
    /\ axis = 1 /\ unread = Halves
    /\ bytes = [h \in Halves |-> 0]
    /\ filtered = [a \in 1..Axes |-> 0]
    /\ source = [a \in 1..Axes |-> 0]

\* The two registers of a value in two's complement, and the int16_t of them.
register(v, h) == IF h = "low" THEN v % 256 ELSE (v % 65536) \div 256

\* Mutant of signed: the low byte is a signed char and its sign fills the rest.
signed_extended(low, high) ==
    LET u == low + 256 * high
    IN  IF low >= 128 THEN low - 256 ELSE IF u < 32768 THEN u ELSE u - 65536

signed(low, high) == LET u == low + 256 * high IN IF u < 32768 THEN u ELSE u - 65536

\* The estimate before is always passed as 0, so the filter is a factor of
\* (1 + 1) / (1 + 1 + 0.1); the float becomes an int16_t again, towards 0.
kalman_filter(m) ==
    IF m >= 0 THEN (20 * m) \div 21 ELSE -((-20 * m) \div 21)

Sample ==
    /\ \E a \in 1..Axes : \E v \in Field : sample' = [sample EXCEPT ![a] = v]
    /\ UNCHANGED <<axis, unread, bytes, filtered, source>>

read_reg(h) ==
    /\ axis <= Axes /\ h \in unread /\ unread' = unread \ {h}
    /\ bytes' = [bytes EXCEPT ![h] = register(sample[axis], h)]
    /\ source' = IF h = "high" THEN [source EXCEPT ![axis] = sample[axis]] ELSE source
    /\ UNCHANGED <<sample, axis, filtered>>

\* Both have been read.  The filter runs after all six have, on copies.
Combine ==
    /\ axis <= Axes /\ unread = {}
    /\ filtered' = [filtered EXCEPT ![axis] = kalman_filter(signed(bytes["low"], bytes["high"]))]
    /\ axis' = axis + 1 /\ unread' = Halves
    /\ UNCHANGED <<sample, bytes, source>>

Pass ==
    /\ axis = Axes + 1 /\ axis' = 1
    /\ UNCHANGED <<sample, unread, bytes, filtered, source>>

Next == Sample \/ (\E h \in Halves : read_reg(h)) \/ Combine \/ Pass

Spec == Init /\ [][Next]_vars

\* A value may be put together from two samples.  Even so it is off from a
\* sample of this pass by no more than 256, also where the sign changes, and
\* the filter adds no more than the factor and the rounding.
OffByALowByte ==
    axis = Axes + 1 => \A a \in 1..Axes :
        LET off == 21 * filtered[a] - 20 * source[a]
        IN  off <= 20 * 256 /\ off >= -(20 * 256)
====
