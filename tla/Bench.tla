---- MODULE Bench ----
(***************************************************************************)
(* The programs beside the firmware, and the firmware's start, QueueBoot.  *)
(* They have nothing to do with one another; program says which of them is *)
(* running; the others do not leave their initial state.  The two tasks of *)
(* driver/irline share nothing either.                                     *)
(***************************************************************************)
EXTENDS Integers, Sequences, QueueBoot

CONSTANTS
    MaxEdges,               \* of IrDebounce
    Tracks,                 \* of BarcodeBackup
    Axes, Field,            \* of Compass
    MaxFaults, MaxPolls     \* of TemperatureLink

ASSUME BenchAssumption ==
    /\ MaxEdges \in Nat /\ MaxFaults \in Nat /\ MaxPolls \in Nat
    /\ Tracks # {} /\ Field # {}
    /\ Axes \in Nat /\ \A v \in Field : v \in Int /\ -32768 <= v /\ v <= 32767

VARIABLES
    program,
    pin, latched, alarm, stop_signal, lPc, looked, sensor, count, ignored,
    track, edges, window, barcodeRead, tPc, barcode, decoded, disturbed, printed,
    sample, axis, unread, bytes, filtered, source,
    state, listener_registered, operation, closing, shown,
    advertises, le_notification_enabled, con_handle, canSend, current_temp,
    cLink, sLink, toServer, toClient, connections, faults, stalled

lineVars == <<pin, latched, alarm, stop_signal, lPc, looked, sensor, count, ignored>>
barVars  == <<track, edges, window, barcodeRead, tPc, barcode, decoded, disturbed, printed>>
compassVars == <<sample, axis, unread, bytes, filtered, source>>
linkVars == <<state, listener_registered, operation, closing, shown, advertises,
              le_notification_enabled, con_handle, canSend, current_temp, cLink, sLink,
              toServer, toClient, connections, faults, stalled>>
vars == <<program, lineVars, barVars, compassVars, linkVars, bootVars>>

Lines   == INSTANCE IrDebounce
Bars    == INSTANCE BarcodeBackup
Heading == INSTANCE Compass
Link    == INSTANCE TemperatureLink

ASSUME PrintAssumption == \A t \in Tracks : Bars!isTrack(t) /\ Bars!wellPrinted(t)

Init ==
    /\ program \in {"lines", "bars", "compass", "link", "boot"}
    /\ Lines!Init /\ (program # "lines" => pin = "low")
    /\ Bars!Init /\ (program # "bars" => track = (CHOOSE t \in Tracks : TRUE))
    /\ Heading!Init /\ (program # "compass" => sample = [a \in 1..Axes |-> CHOOSE v \in Field : TRUE])
    /\ Link!Init
    /\ BootInit

Next ==
    \/ /\ program = "lines" /\ Lines!Next
       /\ UNCHANGED <<program, barVars, compassVars, linkVars, bootVars>>
    \/ /\ program = "bars" /\ Bars!Next
       /\ UNCHANGED <<program, lineVars, compassVars, linkVars, bootVars>>
    \/ /\ program = "compass" /\ Heading!Next
       /\ UNCHANGED <<program, lineVars, barVars, linkVars, bootVars>>
    \/ /\ program = "link" /\ Link!Next
       /\ UNCHANGED <<program, lineVars, barVars, compassVars, bootVars>>
    \/ /\ program = "boot" /\ BootNext
       /\ UNCHANGED <<program, lineVars, barVars, compassVars, linkVars>>

SafetySpec == Init /\ [][Next]_vars

Spec ==
    /\ SafetySpec
    /\ program = "lines" => Lines!Fairness
    /\ program = "bars" => Bars!Fairness
    /\ program = "link" => Link!Fairness

\* ir.c: the colour shown becomes that under the sensor, unless an edge was
\* ignored.
ShownInTheEnd == program = "lines" => Lines!ShownInTheEnd

\* barcode_reader_backup.c: undisturbed, only bar codes of the track are printed,
\* if it is met forward.
PrintsWhatIsThere == program = "bars" => Bars!PrintsWhatIsThere

\* barcode_reader_backup.c: a bar code alone on the track is printed.
LoneBarcodePrinted == program = "bars" => Bars!LoneBarcodePrinted

\* magnetometer.c: a value put together from two samples is off by 256 at most.
OffByALowByte == program = "compass" => Heading!OffByALowByte

\* server_common.c: notifications go to a client that has subscribed.
SubscriberIsConnected == program = "link" => Link!SubscriberIsConnected

\* client.c: the latest temperature is shown in the end.
LatestTemperatureShown == program = "link" => Link!LatestTemperatureShown
====
