---- MODULE TemperatureLink ----
(***************************************************************************)
(* The two Bluetooth programs in Robot/pico_w/bt/standalone: server.c with *)
(* server_common.c measures its temperature and notifies a client of it;   *)
(* client.c looks for a server, subscribes and prints what it is told.     *)
(*                                                                         *)
(* Everything is a handler that BTstack calls for an event.  The stack and *)
(* the radio are external: a connection has a number and is seen by each   *)
(* side until that side gets the event of its end; what the server sends   *)
(* arrives in order; an operation or a connection may fail.  A temperature *)
(* is the number of the measurement.  The LEDs are left out.               *)
(***************************************************************************)
EXTENDS Integers, Sequences

CONSTANTS
    MaxFaults,  \* bound: connections lost and operations failed
    MaxPolls    \* bound: measurements

VARIABLES
    state,                  \* the client's gc_state_t, without TC_
    listener_registered,
    operation,              \* the GATT operation BTstack is carrying out for it
    closing,                \* it has asked for the end of the connection
    shown,                  \* the temperature it printed last
    advertises,             \* the server has been started
    le_notification_enabled,
    con_handle,
    canSend,                \* it has asked for ATT_EVENT_CAN_SEND_NOW
    current_temp,
    cLink, sLink,           \* the connection that each side sees, 0: none
    toServer,               \* a write request is under way
    toClient,               \* what the server has sent: the answer, temperatures
    connections, faults,    \* how many there have been
    stalled                 \* history: an error that the client does not look at

clientVars == <<state, listener_registered, operation, closing, shown>>
serverVars == <<advertises, le_notification_enabled, con_handle, canSend, current_temp>>
linkVars == <<cLink, sLink, toServer, toClient, connections, faults, stalled>>
vars == <<clientVars, serverVars, linkVars>>

Init ==
    /\ state = "OFF" /\ listener_registered = FALSE
    /\ operation = "none" /\ closing = FALSE /\ shown = 0
    /\ advertises = FALSE /\ le_notification_enabled = FALSE /\ con_handle = 0
    /\ canSend = FALSE /\ current_temp = 0
    /\ cLink = 0 /\ sLink = 0 /\ toServer = FALSE /\ toClient = <<>>
    /\ connections = 0 /\ faults = 0 /\ stalled = FALSE

\* What the server sends is a temperature, from 1, or the answer to the write.
answer == 0

fault == faults < MaxFaults /\ faults' = faults + 1

----------------------------------------------------------------------------
\* The client: hci_event_handler

client_start == state' = "W4_SCAN_RESULT"

ClientWorking ==
    /\ state = "OFF" /\ client_start
    /\ UNCHANGED <<listener_registered, operation, closing, shown, serverVars, linkVars>>

\* What a device that advertises says it has.
contains_service(services) == "environmental sensing" \in services

\* An advertisement counts only while the client scans.
AdvertisingReport(services) ==
    /\ state = "W4_SCAN_RESULT" /\ contains_service(services)
    /\ state' = "W4_CONNECT"
    /\ UNCHANGED <<listener_registered, operation, closing, shown, serverVars, linkVars>>

\* The server advertises again as soon as it sees its connection end.
ConnectionComplete ==
    /\ state = "W4_CONNECT" /\ state' = "W4_SERVICE_RESULT"
    /\ advertises /\ sLink = 0
    /\ connections' = connections + 1
    /\ cLink' = connections' /\ sLink' = connections'
    /\ operation' = "services"
    /\ UNCHANGED <<listener_registered, closing, shown, serverVars,
                   toServer, toClient, faults, stalled>>

\* The event has a status, and the client goes on whatever that is.
ConnectionFails ==
    /\ state = "W4_CONNECT" /\ state' = "W4_SERVICE_RESULT"
    /\ fault /\ stalled' = TRUE
    /\ UNCHANGED <<listener_registered, operation, closing, shown, serverVars,
                   cLink, sLink, toServer, toClient, connections>>

\* Mutant of ClientDisconnected: it scans again only if it had subscribed.
ClientDisconnectedSubscriber ==
    /\ cLink # 0 /\ cLink' = 0
    /\ IF closing \/ sLink # cLink THEN UNCHANGED faults ELSE fault
    /\ IF listener_registered THEN client_start ELSE UNCHANGED state
    /\ listener_registered' = FALSE
    /\ operation' = "none" /\ closing' = FALSE /\ stalled' = FALSE
    /\ toClient' = <<>>
    /\ UNCHANGED <<shown, serverVars, sLink, toServer, connections>>

\* The end of the connection: asked for, noticed, or lost.  An operation that it
\* cuts off fails first, with no effect that lasts.
ClientDisconnected ==
    /\ cLink # 0 /\ cLink' = 0
    /\ IF closing \/ sLink # cLink THEN UNCHANGED faults ELSE fault
    /\ client_start
    /\ listener_registered' = FALSE
    /\ operation' = "none" /\ closing' = FALSE /\ stalled' = FALSE
    /\ toClient' = <<>>
    /\ UNCHANGED <<shown, serverVars, sLink, toServer, connections>>

----------------------------------------------------------------------------
\* The client: handle_gatt_client_event.  A result is stored and the query
\* complete in one step.

ServiceQueryComplete ==
    /\ operation = "services" /\ sLink = cLink
    /\ state' = "W4_CHARACTERISTIC_RESULT" /\ operation' = "characteristics"
    /\ UNCHANGED <<listener_registered, closing, shown, serverVars, linkVars>>

CharacteristicQueryComplete ==
    /\ operation = "characteristics" /\ sLink = cLink
    /\ listener_registered' = TRUE
    /\ state' = "W4_ENABLE_NOTIFICATIONS_COMPLETE" /\ operation' = "configure"
    /\ toServer' = TRUE
    /\ UNCHANGED <<closing, shown, serverVars,
                   cLink, sLink, toClient, connections, faults, stalled>>

\* An ATT error: the connection is given up, but an error in the last of the
\* three operations changes nothing.
QueryFails ==
    /\ operation # "none" /\ operation' = "none"
    /\ fault
    /\ IF operation = "configure"
       THEN stalled' = TRUE /\ UNCHANGED closing
       ELSE closing' = TRUE /\ UNCHANGED stalled
    /\ UNCHANGED <<state, listener_registered, shown, serverVars,
                   cLink, sLink, toServer, toClient, connections>>

take == toClient # <<>> /\ toClient' = Tail(toClient)

\* The answer to the last operation, which is dropped if that has failed.
EnableComplete ==
    /\ take /\ Head(toClient) = answer
    /\ IF operation = "configure"
       THEN state' = "W4_READY" /\ operation' = "none"
       ELSE UNCHANGED <<state, operation>>
    /\ UNCHANGED <<listener_registered, closing, shown, serverVars,
                   cLink, sLink, toServer, connections, faults, stalled>>

\* Nothing is printed before the client is ready.
Notification ==
    /\ take /\ Head(toClient) # answer
    /\ shown' = IF state = "W4_READY" THEN Head(toClient) ELSE shown
    /\ UNCHANGED <<state, listener_registered, operation, closing, serverVars,
                   cLink, sLink, toServer, connections, faults, stalled>>

----------------------------------------------------------------------------
\* The server

poll_temp == current_temp' = current_temp + 1

ServerWorking ==
    /\ ~advertises /\ advertises' = TRUE
    /\ poll_temp
    /\ UNCHANGED <<le_notification_enabled, con_handle, canSend, clientVars, linkVars>>

\* Mutant of ServerDisconnected: the subscription outlives the connection.
ServerDisconnectedEnabled ==
    /\ sLink # 0 /\ sLink' = 0
    /\ IF sLink # cLink THEN UNCHANGED faults ELSE fault
    /\ canSend' = FALSE /\ toServer' = FALSE
    /\ UNCHANGED <<advertises, le_notification_enabled, con_handle, current_temp, clientVars,
                   cLink, toClient, connections, stalled>>

ServerDisconnected ==
    /\ sLink # 0 /\ sLink' = 0
    /\ IF sLink # cLink THEN UNCHANGED faults ELSE fault
    /\ le_notification_enabled' = FALSE
    /\ canSend' = FALSE /\ toServer' = FALSE
    /\ UNCHANGED <<advertises, con_handle, current_temp, clientVars,
                   cLink, toClient, connections, stalled>>

\* The answer is sent when the callback has returned.
att_write_callback ==
    /\ toServer /\ toServer' = FALSE
    /\ le_notification_enabled' = TRUE /\ con_handle' = sLink
    /\ canSend' = TRUE
    /\ toClient' = IF sLink = cLink THEN Append(toClient, answer) ELSE toClient
    /\ UNCHANGED <<advertises, current_temp, clientVars, cLink, sLink, connections, faults, stalled>>

\* ATT_EVENT_CAN_SEND_NOW: BTstack has a buffer for it.
CanSendNow ==
    /\ canSend /\ canSend' = FALSE
    /\ Len(toClient) < 2
    /\ toClient' = IF sLink = cLink THEN Append(toClient, current_temp) ELSE toClient
    /\ UNCHANGED <<advertises, le_notification_enabled, con_handle, current_temp, clientVars,
                   cLink, sLink, toServer, connections, faults, stalled>>

\* heartbeat_handler: every tenth call measures, the others only blink.
Blink == advertises /\ UNCHANGED vars

Measure ==
    /\ advertises /\ current_temp < MaxPolls
    /\ poll_temp
    /\ canSend' = (canSend \/ le_notification_enabled)
    /\ UNCHANGED <<advertises, le_notification_enabled, con_handle, clientVars, linkVars>>

----------------------------------------------------------------------------

ClientEvent ==
    \/ ClientWorking \/ ConnectionComplete
    \/ \E services \in {{}, {"environmental sensing"}} : AdvertisingReport(services)
    \/ ServiceQueryComplete \/ CharacteristicQueryComplete \/ EnableComplete \/ Notification

ServerEvent == ServerWorking \/ att_write_callback \/ CanSendNow \/ Measure

\* A side that has asked for the end of the connection, or whose peer has left
\* it, comes to see that end.
Ends ==
    \/ (closing \/ sLink # cLink) /\ ClientDisconnected
    \/ sLink # cLink /\ ServerDisconnected

Faults == ClientDisconnected \/ ServerDisconnected \/ ConnectionFails \/ QueryFails

Next == ClientEvent \/ ServerEvent \/ Faults \/ Blink

Fairness == WF_vars(ClientEvent) /\ WF_vars(ServerEvent) /\ WF_vars(Ends)

Spec == Init /\ [][Next]_vars /\ Fairness

----------------------------------------------------------------------------
\* Properties

\* The server asks BTstack to notify only a client that is connected, and that
\* has subscribed in this connection.
SubscriberIsConnected ==
    le_notification_enabled \/ canSend => sLink # 0 /\ con_handle = sLink

\* However often the connection is lost, on either side first, the client comes
\* to show the latest temperature, unless its last operation or the connection
\* failed: these errors it does not look at, and nothing makes it try again.
LatestTemperatureShown == <>[](stalled \/ (state = "W4_READY" /\ shown = current_temp))
====
