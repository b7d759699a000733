---- MODULE BarcodeBackup ----
(***************************************************************************)
(* The barcode reader of the bench program driver/irline,                  *)
(* barcode_reader_backup.c: it reads in one direction, polls without a     *)
(* delay, and prints.  An asterisk reads as one here, and three characters *)
(* that begin with anything else are dropped at once.                      *)
(***************************************************************************)
EXTENDS BarWindow

CONSTANT Tracks     \* tracks the car may meet, see Code39

VARIABLES
    track,          \* the track under the car
    edges,          \* changes of colour it has met
    window,         \* barcodes and barcode_arr_index
    barcodeRead,    \* the last three characters
    tPc,            \* next step of temp_detect
    barcode,        \* firstBarcode, secondBarcode, thirdBarcode
    decoded,        \* history: all characters decoded
    disturbed,      \* history: a character came since the task looked at [0]
    printed         \* history: what has been printed

vars == <<track, edges, window, barcodeRead, tPc, barcode, decoded, disturbed, printed>>
unread == <<track, edges, window, decoded>>

Bytes == 0..2
noCharacter == ""
nothing == [n \in Bytes |-> noCharacter]

Init ==
    /\ track \in Tracks /\ edges = 0
    /\ window = initially
    /\ barcodeRead = nothing /\ barcode = nothing
    /\ tPc = "new"
    /\ decoded = <<>> /\ disturbed = FALSE /\ printed = <<>>

----------------------------------------------------------------------------
\* The ADC interrupt

compareTwoArray(w) ==
    LET wide == sortBarType(w)
    IN  IF startsWhite(w) THEN 0 ELSE firstOf({n \in Codes : wide = arrayMaps[n]})

addBarcode(w, length, colour) ==
    LET next == nextBar(w, length, colour)
    IN  IF w.index < BARCODE_BUF_SIZE THEN next ELSE decoded_as(next, compareTwoArray(next))

appendToBarcodeRead(c) ==
    /\ barcodeRead' = [n \in Bytes |-> IF n = 2 THEN c ELSE barcodeRead[n + 1]]
    /\ decoded' = Append(decoded, c)
    /\ disturbed' = (tPc # "new")

\* ADC_IRQ_FIFO_HANDLER at a change of colour.
Edge ==
    /\ edges < stretches(track) /\ edges' = edges + 1
    /\ window' = addBarcode(window, stretch(track, edges + 1),
                            IF edges % 2 = 0 THEN "black" ELSE "white")
    /\ \/ window'.match = 0 /\ UNCHANGED <<barcodeRead, decoded, disturbed>>
       \/ window'.match # 0 /\ appendToBarcodeRead(characters[window'.match])
    /\ UNCHANGED <<track, tPc, barcode, printed>>

----------------------------------------------------------------------------
\* The task temp_detect

Compare(pc, n, c, same, differs) ==
    /\ tPc = pc
    /\ tPc' = IF barcodeRead[n] = c THEN same ELSE differs
    /\ disturbed' = (pc # "new" /\ disturbed)
    /\ UNCHANGED <<unread, barcodeRead, barcode, printed>>

Store(pc, n, c, next) ==
    /\ tPc = pc /\ tPc' = next
    /\ barcodeRead' = [barcodeRead EXCEPT ![n] = c]
    /\ UNCHANGED <<unread, barcode, disturbed, printed>>

clearBarcodeRead ==
    \/ Store("clear0", 0, noCharacter, "clear1")
    \/ Store("clear1", 1, noCharacter, "clear2")
    \/ Store("clear2", 2, noCharacter, "new")

\* Mutants of isValidBarcode: what begins with a letter is not dropped; what
\* has not begun is.
isValidBarcode_lenient ==
    \/ Compare("new",    0, noCharacter, "first", "begins")
    \/ Compare("begins", 0, "*", "first", "first")
    \/ Compare("first",  0, "*", "last", "last")
    \/ Compare("last",   2, "*", "middle", "new")
    \/ Compare("middle", 1, noCharacter, "new", "take0")

isValidBarcode_hasty ==
    \/ Compare("new",    0, "*", "first", "clear0")
    \/ Compare("first",  0, "*", "last", "new")
    \/ Compare("last",   2, "*", "middle", "new")
    \/ Compare("middle", 1, noCharacter, "new", "take0")

isValidBarcode ==
    \/ Compare("new",    0, noCharacter, "first", "begins")
    \/ Compare("begins", 0, "*", "first", "clear0")
    \/ Compare("first",  0, "*", "last", "new")
    \/ Compare("last",   2, "*", "middle", "new")
    \/ Compare("middle", 1, noCharacter, "new", "take0")

Take(pc, n, next) ==
    /\ tPc = pc /\ tPc' = next
    /\ barcode' = [barcode EXCEPT ![n] = barcodeRead[n]]
    /\ UNCHANGED <<unread, barcodeRead, disturbed, printed>>

Report ==
    /\ tPc = "print" /\ tPc' = "clear0"
    /\ printed' = Append(printed, [text |-> barcode, whole |-> ~disturbed])
    /\ barcode' = nothing
    /\ UNCHANGED <<unread, barcodeRead, disturbed>>

temp_detect ==
    \/ isValidBarcode \/ clearBarcodeRead
    \/ Take("take0", 0, "take1") \/ Take("take1", 1, "take2") \/ Take("take2", 2, "print")
    \/ Report

Next == Edge \/ temp_detect

\* The car drives on to the end, and the task has time slices of its own.
Fairness == <>(edges = stretches(track)) /\ WF_vars(temp_detect)

Spec == Init /\ [][Next]_vars /\ Fairness

----------------------------------------------------------------------------
\* Properties

\* Undisturbed, the program prints bar codes of the track and nothing else.  This
\* needs a track that is met forward: a letter met backward may match nothing, the
\* window then moves on by a bar at a time, and what it matches next may be part of
\* one letter and part of the next.
PrintsWhatIsThere ==
    ~track.backward =>
        \A k \in DOMAIN printed : printed[k].whole =>
            \E m \in DOMAIN track.letters :
                printed[k].text = [n \in Bytes |-> IF n = 1 THEN track.letters[m] ELSE "*"]

\* A bar code alone on a track that is met forward is printed.
LoneBarcodePrinted ==
    ~track.backward /\ Len(track.letters) = 1 => <>(printed # <<>>)
====
