---- MODULE QueueBoot ----
(***************************************************************************)
(* How a sensor task and the task that receives from it come to share a    *)
(* queue.  The sensor's file keeps a static handle; whichever of the two   *)
(* tasks finds it NULL creates a queue and stores its handle there,        *)
(* without a lock.  The sensor sends to the static handle; the receiver    *)
(* waits at a copy of its own in main.c.                                   *)
(*                                                                         *)
(* Both tasks have priority 0 and share the processor by time slices, so   *)
(* each may be interrupted by the other after any access to the handle.    *)
(***************************************************************************)
EXTENDS Naturals

CONSTANTS
    Channels,      \* the sensors whose tasks main.c starts
    ViaHandler     \* those whose sensor task calls the handler function too

Tasks == {"sensor", "receiver"}
NULL  == 0

VARIABLES
    handle,    \* handle[ch]: the static handle of the sensor's file
    mine,      \* mine[ch]: the receiver's copy in main.c
    created,   \* created[ch]: the queues created so far are 1..created[ch]
    ret,       \* ret[ch][t]: the handle a function has returned to task t
    pc,        \* pc[ch][t]: where task t of channel ch is
    apart      \* history: channels of which one task was in its loop before the
               \* other looked at the handle

bootVars == <<handle, mine, created, ret, pc, apart>>

BootInit ==
    /\ handle = [ch \in Channels |-> NULL]
    /\ mine = [ch \in Channels |-> NULL]
    /\ created = [ch \in Channels |-> 0]
    /\ ret = [ch \in Channels |-> [t \in Tasks |-> NULL]]
    /\ pc = [ch \in Channels |-> [t \in Tasks |-> "test"]]
    /\ apart = {}

\* Both loops touch the handles no more.
Runs(ch, t) == pc[ch][t] = "run"

lookedAt(ch) == apart' = IF \E t \in Tasks : Runs(ch, t) THEN apart \cup {ch} ELSE apart

goto(ch, t, p) == pc' = [pc EXCEPT ![ch][t] = p]

\* detectLines tests the handle and creates the queue itself; all others call
\* IRMessageHandler or BarcodeMessageHandler, which return the handle.
returning(ch, t) == IF t = "receiver" \/ ch \in ViaHandler THEN "return" ELSE "run"

\* Mutant of Test: the queue is created whatever the handle is.
TestDropped(ch, t) ==
    /\ pc[ch][t] = "test"
    /\ goto(ch, t, "create")
    /\ lookedAt(ch)
    /\ UNCHANGED <<handle, mine, created, ret>>

\* Mutant of Test: the receiver leaves it to the sensor's task to create the queue.
TestRelies(ch, t) ==
    /\ pc[ch][t] = "test"
    /\ goto(ch, t, IF handle[ch] = NULL /\ t = "sensor" THEN "create" ELSE returning(ch, t))
    /\ lookedAt(ch)
    /\ UNCHANGED <<handle, mine, created, ret>>

\* if (handle == NULL)
Test(ch, t) ==
    /\ pc[ch][t] = "test"
    /\ goto(ch, t, IF handle[ch] = NULL THEN "create" ELSE returning(ch, t))
    /\ lookedAt(ch)
    /\ UNCHANGED <<handle, mine, created, ret>>

xQueueCreate(ch, t) ==
    /\ pc[ch][t] = "create"
    /\ created' = [created EXCEPT ![ch] = @ + 1]
    /\ ret' = [ret EXCEPT ![ch][t] = created'[ch]]
    /\ goto(ch, t, "store")
    /\ UNCHANGED <<handle, mine, apart>>

Store(ch, t) ==
    /\ pc[ch][t] = "store"
    /\ handle' = [handle EXCEPT ![ch] = ret[ch][t]]
    /\ goto(ch, t, returning(ch, t))
    /\ UNCHANGED <<mine, created, ret, apart>>

\* return handle
Return(ch, t) ==
    /\ pc[ch][t] = "return"
    /\ ret' = [ret EXCEPT ![ch][t] = handle[ch]]
    /\ goto(ch, t, "assign")
    /\ UNCHANGED <<handle, mine, created, apart>>

\* The receiver stores what the handler returned into its copy; barcodeLaunch
\* stores it into the static handle once more.
Assign(ch, t) ==
    /\ pc[ch][t] = "assign"
    /\ IF t = "receiver"
       THEN mine' = [mine EXCEPT ![ch] = ret[ch][t]] /\ UNCHANGED handle
       ELSE handle' = [handle EXCEPT ![ch] = ret[ch][t]] /\ UNCHANGED mine
    /\ goto(ch, t, "run")
    /\ UNCHANGED <<created, ret, apart>>

\* Both loops run from here on.
AllRunning == (\A ch \in Channels, t \in Tasks : Runs(ch, t)) /\ UNCHANGED bootVars

BootNext ==
    \/ \E ch \in Channels, t \in Tasks :
          Test(ch, t) \/ xQueueCreate(ch, t) \/ Store(ch, t) \/ Return(ch, t) \/ Assign(ch, t)
    \/ AllRunning

BootSpec == BootInit /\ [][BootNext]_bootVars

----------------------------------------------------------------------------
\* Properties

\* Neither xQueueSend nor xQueueReceive is called with a handle that no queue
\* has: the tasks may start in any order, and either may be overtaken.
HandlesAreQueues ==
    \A ch \in Channels :
        /\ Runs(ch, "sensor") => handle[ch] \in 1..created[ch]
        /\ Runs(ch, "receiver") => mine[ch] \in 1..created[ch]

Share(ch) == Runs(ch, "sensor") /\ Runs(ch, "receiver") => handle[ch] = mine[ch]

\* If one of the two tasks is in its loop before the other first tests the
\* handle, they use the same queue from then on: only tasks that start at the
\* same time can miss one another.
StartedApartTheyShare == \A ch \in apart : Share(ch)

\* ir.c:87, "Sends a message to the queue", and main.c:100, "Receives char[100]
\* from respective Queue": the two tasks of a channel use one queue.
OneQueuePerChannel == \A ch \in Channels : Share(ch)
====
