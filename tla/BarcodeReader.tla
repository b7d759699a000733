---- MODULE BarcodeReader ----
(***************************************************************************)
(* barcode_reader.c, the receiver task of main.c that takes its messages,  *)
(* and the buffer of the web page, ssi.h.                                  *)
(*                                                                         *)
(* The ADC interrupt decodes bars into the last three characters; the task *)
(* barcodeLaunch looks at these, sends and clears them, one byte at a time *)
(* and without disabling the interrupt.  The web server runs in interrupts *)
(* and may look at the page between any two bytes that the receiver writes.*)
(* Both interrupts allocate memory and never free it.                      *)
(***************************************************************************)
EXTENDS BarWindow

CONSTANTS
    Tracks,     \* tracks the car may meet, see Code39
    QueueLen,   \* length of the queue (5)
    Heap,       \* blocks that can be allocated
    MaxRequests \* bound: requests of the page

ASSUME TracksAssumption ==
    /\ QueueLen \in Nat /\ Heap \in Nat /\ MaxRequests \in Nat
    /\ \A t \in Tracks : isTrack(t)

\* Needed for what is read and what that costs, not for what the tasks make of it.
ASSUME PrintAssumption == \A t \in Tracks : wellPrinted(t)

VARIABLES
    track,          \* the track under the car
    edges,          \* changes of colour it has met
    window,         \* barcodes and barcode_arr_index
    barcodeRead,    \* the last three characters
    free,           \* blocks of the heap
    halted,         \* an allocation has failed
    bPc,            \* next step of the task
    message,        \* its printf_message
    queue,
    rPc,            \* the receiver: "wait", or the byte of the page it writes next
    received,       \* its receivedValue
    page,           \* barcode_data
    decoded,        \* history: all characters decoded
    requests,       \* history: number of requests of the page
    disturbed,      \* history: a character came since the task looked at [0]
    sent            \* history: the messages sent

isrVars  == <<track, edges, window, free, halted, decoded, requests>>
taskVars == <<bPc, message, sent>>
recvVars == <<rPc, received, page>>
vars == <<isrVars, barcodeRead, disturbed, taskVars, queue, recvVars>>

Bytes == 0..2
Text  == 0..3   \* three characters and the terminator
noCharacter == ""

Init ==
    /\ track \in Tracks /\ edges = 0
    /\ window = initially
    /\ barcodeRead = [n \in Bytes |-> noCharacter]
    /\ free = Heap /\ halted = FALSE
    /\ bPc = "star0"
    /\ message = [n \in Bytes |-> noCharacter]
    /\ queue = <<>>
    /\ rPc = "wait"
    /\ received = [n \in Bytes |-> noCharacter]
    /\ page = [n \in Text |-> noCharacter]
    /\ decoded = <<>> /\ requests = 0 /\ disturbed = FALSE /\ sent = <<>>

----------------------------------------------------------------------------
\* The ADC interrupt

\* Mutant of compareTwoArray: only the bars as printed are compared.
compareTwoArray_forward(w) ==
    LET wide == sortBarType(w)
    IN  IF startsWhite(w) THEN 0 ELSE firstOf({n \in Codes : wide = arrayMaps[n]})

\* The first entry of the table that matches in either direction.
compareTwoArray(w) ==
    LET wide == sortBarType(w)
    IN  IF startsWhite(w) THEN 0
        ELSE firstOf({n \in Codes : wide \in {arrayMaps[n], reverseString(arrayMaps[n])}})

\* A change of colour; a full window is decoded.
addBarcode(w, length, colour) ==
    LET next == nextBar(w, length, colour)
    IN  IF w.index < BARCODE_BUF_SIZE THEN next ELSE decoded_as(next, compareTwoArray(next))

\* Mutant of blocksLost: barsRead is not freed either.
blocksLost_sorted(w) ==
    IF w.match # 0 THEN w.match + 1 ELSE IF startsWhite(w) THEN 1 ELSE 29

\* Blocks that this has allocated and not freed: a reversed string for each
\* entry compared, with string if none matches; barsRead if the window starts
\* with white.
blocksLost(w) ==
    IF w.match # 0 THEN w.match ELSE IF startsWhite(w) THEN 1 ELSE 28

\* Blocks that it needs for that: string is freed only after the match.
blocksNeeded(w) == IF w.match # 0 THEN blocksLost(w) + 1 ELSE blocksLost(w)

appendToBarcodeRead(c) ==
    barcodeRead' = [n \in Bytes |-> IF n = 2 THEN c ELSE barcodeRead[n + 1]]

\* The window was not full ...
Fill ==
    /\ window.index < BARCODE_BUF_SIZE
    /\ UNCHANGED <<barcodeRead, free, halted, decoded, disturbed>>

\* ... or it was: one of the characters is read, or none.  An allocation that
\* fails ends the program.
Read ==
    LET fails == blocksNeeded(window') > free
    IN  /\ window.index = BARCODE_BUF_SIZE
        /\ halted' = fails
        /\ free' = IF fails THEN free ELSE free - blocksLost(window')
        /\ IF window'.match = 0 \/ fails
           THEN UNCHANGED <<barcodeRead, decoded, disturbed>>
           ELSE /\ appendToBarcodeRead(characters[window'.match])
                /\ decoded' = Append(decoded, characters[window'.match])
                /\ disturbed' = (bPc # "star0")

\* ADC_IRQ_FIFO_HANDLER at a change of colour.
Edge ==
    /\ edges < stretches(track) /\ edges' = edges + 1
    /\ window' = addBarcode(window, stretch(track, edges + 1),
                            IF edges % 2 = 0 THEN "black" ELSE "white")
    /\ Fill \/ Read
    /\ UNCHANGED <<track, requests, taskVars, queue, recvVars>>

----------------------------------------------------------------------------
\* The task barcodeLaunch

\* A step of isValidBarcode that compares a byte.
Compare(pc, n, differs, c, yes, no) ==
    /\ bPc = pc
    /\ bPc' = IF (barcodeRead[n] = c) # differs THEN yes ELSE no
    /\ disturbed' = (pc # "star0" /\ disturbed)
    /\ UNCHANGED <<isrVars, barcodeRead, message, sent, queue, recvVars>>

\* A step that stores one.
Store(pc, n, c, next) ==
    /\ bPc = pc /\ bPc' = next
    /\ barcodeRead' = [barcodeRead EXCEPT ![n] = c]
    /\ UNCHANGED <<isrVars, disturbed, message, sent, queue, recvVars>>

\* Mutant of isValidBarcode: the last character is not looked at.
isValidBarcode_prefix ==
    \/ Compare("star0", 0, FALSE, "*", "middle", "P0")
    \/ Compare("P0",    0, FALSE, "P", "set0", "star0")
    \/ Store("set0", 0, "*", "set2")
    \/ Store("set2", 2, "*", "middle")
    \/ Compare("middle", 1, TRUE, noCharacter, "copy0", "star0")

\* An asterisk reads as P, whichever way the car goes.
isValidBarcode ==
    \/ Compare("star0", 0, FALSE, "*", "star2", "P0")
    \/ Compare("star2", 2, FALSE, "*", "middle", "P0")
    \/ Compare("P0",    0, FALSE, "P", "P2", "star0")
    \/ Compare("P2",    2, FALSE, "P", "set0", "star0")
    \/ Store("set0", 0, "*", "set2")
    \/ Store("set2", 2, "*", "middle")
    \/ Compare("middle", 1, TRUE, noCharacter, "copy0", "star0")

\* send_barcode_data: the bytes are read again, the queue may be full.
Copy(pc, n, next) ==
    /\ bPc = pc /\ bPc' = next
    /\ message' = [message EXCEPT ![n] = barcodeRead[n]]
    /\ UNCHANGED <<isrVars, barcodeRead, disturbed, sent, queue, recvVars>>

\* The last three characters decoded.
lastThree == [n \in Bytes |-> decoded[Len(decoded) - 2 + n]]

xQueueSend ==
    /\ bPc = "send" /\ bPc' = "clear0"
    /\ queue' = IF Len(queue) < QueueLen THEN Append(queue, message) ELSE queue
    /\ sent' = Append(sent, [text |-> message, whole |-> ~disturbed, from |-> lastThree])
    /\ UNCHANGED <<isrVars, barcodeRead, disturbed, message, recvVars>>

send_barcode_data ==
    \/ Copy("copy0", 0, "copy1")
    \/ Copy("copy1", 1, "copy2")
    \/ Copy("copy2", 2, "send")
    \/ xQueueSend

\* Mutant of clearBarcodeRead: the last character stays.
clearBarcodeRead_two ==
    \/ Store("clear0", 0, noCharacter, "clear1")
    \/ Store("clear1", 1, noCharacter, "star0")

clearBarcodeRead ==
    \/ Store("clear0", 0, noCharacter, "clear1")
    \/ Store("clear1", 1, noCharacter, "clear2")
    \/ Store("clear2", 2, noCharacter, "star0")

barcodeLaunch == isValidBarcode \/ send_barcode_data \/ clearBarcodeRead

----------------------------------------------------------------------------
\* The receiver

Receive ==
    /\ rPc = "wait" /\ rPc' = "0"
    /\ queue # <<>> /\ received' = Head(queue) /\ queue' = Tail(queue)
    /\ UNCHANGED <<isrVars, barcodeRead, disturbed, taskVars, page>>

\* The string ends with the first byte that is 0.
Write(pc, n, c, next) ==
    /\ rPc = pc /\ rPc' = IF c = noCharacter THEN "wait" ELSE next
    /\ page' = [page EXCEPT ![n] = c]
    /\ UNCHANGED <<isrVars, barcodeRead, disturbed, taskVars, queue, received>>

\* Mutant of set_barcode_data: the size of a pointer less the terminator, 3.
set_barcode_data_short ==
    \/ Write("0", 0, received[0], "1")
    \/ Write("1", 1, received[1], "3")
    \/ Write("3", 2, noCharacter, "wait")

\* snprintf stores byte by byte, the terminator last.
set_barcode_data ==
    \/ Write("0", 0, received[0], "1")
    \/ Write("1", 1, received[1], "2")
    \/ Write("2", 2, received[2], "3")
    \/ Write("3", 3, noCharacter, "wait")

\* The blocks get_maze_text allocates for each of the two tags of the page:
\* six copies of maze_data, and two halves.  It returns none of them, as the
\* numbers of the tags are 2 and 3 and it looks for 4 and 5.
get_maze_text == 6 + 2

\* ssi_handler for the four tags of the page.  The bar code it shows is page.
Request ==
    /\ requests < MaxRequests /\ requests' = requests + 1
    /\ halted' = (2 * get_maze_text > free)
    /\ free' = IF halted' THEN free ELSE free - 2 * get_maze_text
    /\ UNCHANGED <<track, edges, window, decoded, barcodeRead, disturbed, taskVars, queue, recvVars>>

recv_barcode == Receive \/ set_barcode_data

Next ==
    \/ ~halted /\ (Edge \/ barcodeLaunch \/ recv_barcode \/ Request)
    \/ halted /\ UNCHANGED vars

\* The car drives on to the end, and the tasks of priority 0 get their time
\* slices.
Fairness ==
    /\ <>(halted \/ edges = stretches(track))
    /\ WF_vars(~halted /\ barcodeLaunch)
    /\ WF_vars(~halted /\ recv_barcode)

SafetySpec == Init /\ [][Next]_vars
Spec == SafetySpec /\ Fairness

----------------------------------------------------------------------------
\* Properties

\* As long as there is memory, one character is read for each on the track and
\* no other, in their order: no window that begins in the middle of a character
\* or of the white before it looks like one.  It is read as the first of the
\* table that it or its mirror image matches, see readAs: U to Z and * as others.
DecodesTrack ==
    ~halted =>
        decoded = [n \in 1..passed(track, edges) |-> readAs(charAt(track, n))]

\* The table has every letter, "Alphabets in Code 39 format": each is read as
\* itself, if the car does not meet it backward.
LettersReadAsPrinted ==
    ~track.backward =>
        \A n \in DOMAIN decoded :
            charAt(track, n) \in Letters => decoded[n] = charAt(track, n)

\* No three characters are sent twice, nor is one of them used for two
\* messages, although the interrupt shifts the bytes that are being cleared.
NoBarcodeTwice == 3 * Len(sent) <= Len(decoded)

\* If no character came between the first look at the bytes and the last, a
\* message is the letter that was read between two asterisks.
MessageIsBarcode ==
    \A k \in DOMAIN sent : sent[k].whole =>
        /\ sent[k].from[0] = "P" /\ sent[k].from[2] = "P"
        /\ sent[k].text = [n \in Bytes |-> IF n = 1 THEN sent[k].from[1] ELSE "*"]

\* The page of the k-th message; before the first it is empty.
textOf(k) ==
    [b \in Text |-> IF k # 0 /\ b < 3 THEN sent[k].text[b] ELSE noCharacter]

\* The bytes the receiver has stored of the message it took last, all but while
\* it is at work; and the n-th message as far as that, over the m-th.
stored == CASE rPc = "0" -> 0 [] rPc = "1" -> 1 [] rPc = "2" -> 2 [] rPc = "3" -> 3 [] OTHER -> 4
overlaid(n, m) == [b \in Text |-> IF b < stored THEN textOf(n)[b] ELSE textOf(m)[b]]

\* From byte s up to its end, the string p is the string q.
same(s, p, q) ==
    \A b \in Text : b >= s /\ (\A a \in Text : s <= a /\ a < b => p[a] # noCharacter)
                      => p[b] = q[b]

\* Whenever the web server looks, it finds what the receiver has stored of the
\* message it took last, and beyond that a message sent, or nothing; with a
\* message that a character came into, this may be a text nobody sent.  While two
\* messages none came into are exchanged, the page is one of them.
PageShowsBarcode ==
    \E n, m \in 0..Len(sent) :
        /\ \A b \in Bytes : received[b] = textOf(n)[b]
        /\ same(0, page, overlaid(n, m))
        /\ \/ same(0, page, textOf(n)) \/ same(0, page, textOf(m))
           \/ \E k \in {n, m} : k = 0 \/ ~sent[k].whole

\* The heap never gets back what the interrupts allocate.  A bar code costs at
\* most 52 blocks, a stray mark before it 29, a look at the page 16: this bounds
\* from below how far the car gets before it stops for want of memory.
MemoryPerBarcode ==
    LET barcodes == (passed(track, edges) + 2) \div 3
        strays   == (Len(track.lead) - 1) \div 2
    IN  Heap - free <= 52 * barcodes + 29 * strays + 16 * requests

\* A bar code that is alone on the track is shown, if there is memory for it.
LoneBarcodeReachesPage ==
    Len(track.letters) = 1 /\ Heap >= 52 + 1 + 29 + 16 * MaxRequests =>
        <>(page = [k \in Text |-> CASE k = 1 -> readAs(track.letters[1])
                                     [] k = 3 -> noCharacter
                                     [] OTHER -> "*"])
====
