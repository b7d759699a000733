---- MODULE BarcodeReaderProofs ----
(***************************************************************************)
(* For any tracks, any length of the queue and any memory, and wherever    *)
(* the interrupt falls into the task's looking at the bytes, copying and   *)
(* clearing them: no character is used for two messages, a message made    *)
(* undisturbed is a letter between two asterisks, and the page of the web  *)
(* server shows the beginning of one message over another, or one of the   *)
(* two if both were made undisturbed.  What is read are the characters of  *)
(* the track in their order, each as the first that is its mirror image or *)
(* itself, and what is not freed for them and for requests of the page is  *)
(* bounded by their number.                                                *)
(***************************************************************************)
EXTENDS BarcodeReader, BarWindowProofs, TLAPS

----------------------------------------------------------------------------
\* What messages share

\* 1 if there is a character in that byte, and 0 if not.
taken(n) == IF barcodeRead[n] = noCharacter THEN 0 ELSE 1

\* Characters decoded that no message has been made of.
unused == Len(decoded) - 3 * Len(sent)

BytesInv ==
    /\ barcodeRead = [n \in Bytes |-> barcodeRead[n]]
    /\ IsSequence(decoded) /\ IsSequence(sent)
    /\ Len(decoded) \in Nat /\ Len(sent) \in Nat

\* A byte that is taken stands for an unused character, and so does one in which
\* the task has seen a character, wherever the interrupt has moved it since.
UnusedInv ==
    /\ bPc \in {"star0", "star2", "P0", "P2", "set0", "set2", "middle",
                "copy0", "copy1", "copy2", "send", "clear0", "clear1", "clear2"}
    /\ bPc \in {"star0", "P0"} => unused >= taken(0) + taken(1) + taken(2)
    /\ bPc \in {"star2", "P2"} => unused >= 1 + taken(1) + taken(2)
    /\ bPc \in {"set0", "set2", "middle"} => unused >= 2 + taken(1)
    /\ bPc \in {"copy0", "copy1", "copy2", "send"} => unused >= 3
    /\ bPc = "clear0" => unused >= 0
    /\ bPc = "clear1" => unused >= taken(0)
    /\ bPc = "clear2" => unused >= taken(0) + taken(1)

IInv == BytesInv /\ UnusedInv

LEMMA Counts ==
    ASSUME BytesInv
    PROVE  unused \in Int /\ \A n \in Bytes : taken(n) \in {0, 1}
BY DEF BytesInv, unused, taken

LEMMA BytesKept ==
    ASSUME BytesInv, UNCHANGED <<barcodeRead, decoded, sent>>
    PROVE  BytesInv' /\ unused' = unused /\ \A n \in Bytes : taken(n)' = taken(n)
BY DEF BytesInv, unused, taken, IsSequence

LEMMA InBytes == 0 \in Bytes \ {1, 2} /\ 1 \in Bytes \ {0, 2} /\ 2 \in Bytes \ {0, 1}
BY DEF Bytes

LEMMA ByteStored ==
    ASSUME BytesInv, NEW n \in Bytes, NEW c,
           barcodeRead' = [barcodeRead EXCEPT ![n] = c], UNCHANGED <<decoded, sent>>
    PROVE  /\ BytesInv' /\ unused' = unused
           /\ taken(n)' = IF c = noCharacter THEN 0 ELSE 1
           /\ \A m \in Bytes \ {n} : taken(m)' = taken(m)
<1>1. barcodeRead' = [m \in Bytes |-> IF m = n THEN c ELSE barcodeRead[m]]
    BY DEF BytesInv
<1> QED
    BY <1>1 DEF BytesInv, unused, taken, IsSequence

\* The interrupt: a window that is not full or not a character leaves the bytes
\* alone, and a character moves each byte and is one more of the unused ones.
LEMMA EdgeKeeps == ASSUME IInv, Edge PROVE IInv'
<1> USE DEF IInv
<1>1. bPc' = bPc /\ sent' = sent
    BY DEF Edge, taskVars
<1>2. CASE UNCHANGED <<barcodeRead, decoded>>
    BY <1>1, <1>2, BytesKept DEF UnusedInv, Bytes
<1>3. ASSUME NEW c, appendToBarcodeRead(c), decoded' = Append(decoded, c) PROVE IInv'
    <2>1. IsSequence(decoded') /\ Len(decoded') = Len(decoded) + 1 /\ Len(decoded) \in Nat
        BY <1>3, AppendOne DEF BytesInv
    <2>2. barcodeRead' = [n \in Bytes |-> barcodeRead'[n]]
        BY <1>3 DEF appendToBarcodeRead
    <2>3. BytesInv'
        BY <1>1, <2>1, <2>2 DEF BytesInv, IsSequence
    <2>4. unused' = unused + 1
        BY <1>1, <2>1 DEF unused, BytesInv
    <2>5. taken(0)' = taken(1) /\ taken(1)' = taken(2) /\ taken(2)' \in {0, 1}
        BY <1>3 DEF appendToBarcodeRead, taken, Bytes
    <2>6. UnusedInv'
        BY <1>1, <2>4, <2>5, Counts DEF UnusedInv, Bytes
    <2> QED BY <2>3, <2>6
<1> QED
    BY <1>2, <1>3 DEF Edge, Fill, Read

\* The task looks at the bytes: what it has seen is remembered by its place in the
\* program.  The asterisks it stores stand for characters it has seen.
LEMMA CompareKeeps == ASSUME IInv, isValidBarcode PROVE IInv'
<1> USE DEF IInv
<1>1. barcodeRead[1] = noCharacter <=> taken(1) = 0
    BY DEF taken
<1>2. CASE Compare("star0", 0, FALSE, "*", "star2", "P0")
    <2>1. /\ bPc = "star0" /\ UNCHANGED <<barcodeRead, decoded, sent>>
          /\ bPc' = "P0" \/ (bPc' = "star2" /\ barcodeRead[0] = "*")
        BY <1>2 DEF Compare, isrVars
    <2>2. BytesInv' /\ unused' = unused /\ \A m \in Bytes : taken(m)' = taken(m)
        BY <2>1, BytesKept
    <2>3. bPc' = "star2" => taken(0) = 1
        BY <2>1 DEF taken, noCharacter
    <2> QED
        BY <2>1, <2>2, <2>3, Counts DEF UnusedInv, Bytes
<1>3. CASE Compare("star2", 2, FALSE, "*", "middle", "P0")
    <2>1. /\ bPc = "star2" /\ UNCHANGED <<barcodeRead, decoded, sent>>
          /\ bPc' = "P0" \/ (bPc' = "middle" /\ barcodeRead[2] = "*")
        BY <1>3 DEF Compare, isrVars
    <2>2. BytesInv' /\ unused' = unused /\ \A m \in Bytes : taken(m)' = taken(m)
        BY <2>1, BytesKept
    <2>3. bPc' = "middle" => taken(2) = 1
        BY <2>1 DEF taken, noCharacter
    <2> QED
        BY <2>1, <2>2, <2>3, Counts DEF UnusedInv, Bytes
<1>4. CASE Compare("P0", 0, FALSE, "P", "P2", "star0")
    <2>1. /\ bPc = "P0" /\ UNCHANGED <<barcodeRead, decoded, sent>>
          /\ bPc' = "star0" \/ (bPc' = "P2" /\ barcodeRead[0] = "P")
        BY <1>4 DEF Compare, isrVars
    <2>2. BytesInv' /\ unused' = unused /\ \A m \in Bytes : taken(m)' = taken(m)
        BY <2>1, BytesKept
    <2>3. bPc' = "P2" => taken(0) = 1
        BY <2>1 DEF taken, noCharacter
    <2> QED
        BY <2>1, <2>2, <2>3, Counts DEF UnusedInv, Bytes
<1>5. CASE Compare("P2", 2, FALSE, "P", "set0", "star0")
    <2>1. /\ bPc = "P2" /\ UNCHANGED <<barcodeRead, decoded, sent>>
          /\ bPc' = "star0" \/ (bPc' = "set0" /\ barcodeRead[2] = "P")
        BY <1>5 DEF Compare, isrVars
    <2>2. BytesInv' /\ unused' = unused /\ \A m \in Bytes : taken(m)' = taken(m)
        BY <2>1, BytesKept
    <2>3. bPc' = "set0" => taken(2) = 1
        BY <2>1 DEF taken, noCharacter
    <2> QED
        BY <2>1, <2>2, <2>3, Counts DEF UnusedInv, Bytes
<1>6. CASE Store("set0", 0, "*", "set2")
    <2>1. /\ bPc = "set0" /\ bPc' = "set2" /\ UNCHANGED <<decoded, sent>>
          /\ barcodeRead' = [barcodeRead EXCEPT ![0] = "*"]
        BY <1>6 DEF Store, isrVars
    <2>2. BytesInv' /\ unused' = unused /\ taken(1)' = taken(1)
        BY <2>1, InBytes, ByteStored, Zenon
    <2> QED
        BY <2>1, <2>2, Counts DEF UnusedInv, Bytes
<1>7. CASE Store("set2", 2, "*", "middle")
    <2>1. /\ bPc = "set2" /\ bPc' = "middle" /\ UNCHANGED <<decoded, sent>>
          /\ barcodeRead' = [barcodeRead EXCEPT ![2] = "*"]
        BY <1>7 DEF Store, isrVars
    <2>2. BytesInv' /\ unused' = unused /\ taken(1)' = taken(1)
        BY <2>1, InBytes, ByteStored, Zenon
    <2> QED
        BY <2>1, <2>2, Counts DEF UnusedInv, Bytes
<1>8. CASE Compare("middle", 1, TRUE, noCharacter, "copy0", "star0")
    <2>1. /\ bPc = "middle" /\ UNCHANGED <<barcodeRead, decoded, sent>>
          /\ \/ bPc' = "star0" /\ barcodeRead[1] = noCharacter
             \/ bPc' = "copy0" /\ barcodeRead[1] # noCharacter
        BY <1>8 DEF Compare, isrVars
    <2>2. BytesInv' /\ unused' = unused /\ \A m \in Bytes : taken(m)' = taken(m)
        BY <2>1, BytesKept
    <2> QED
        BY <2>1, <2>2, <1>1, Counts DEF UnusedInv, Bytes
<1> QED
    BY <1>2, <1>3, <1>4, <1>5, <1>6, <1>7, <1>8 DEF isValidBarcode

\* Copying changes nothing, and a message uses up three characters.
LEMMA SendKeeps == ASSUME IInv, send_barcode_data PROVE IInv'
<1> USE DEF IInv, UnusedInv
<1>1. ASSUME NEW pc, NEW n, NEW next, Copy(pc, n, next)
      PROVE  bPc = pc /\ bPc' = next /\ BytesInv' /\ unused' = unused
    <2>1. UNCHANGED <<barcodeRead, decoded, sent>>
        BY <1>1 DEF Copy, isrVars
    <2> QED
        BY <1>1, <2>1, BytesKept DEF Copy
<1>2. CASE Copy("copy0", 0, "copy1")
    BY <1>1, <1>2
<1>3. CASE Copy("copy1", 1, "copy2")
    BY <1>1, <1>3
<1>4. CASE Copy("copy2", 2, "send")
    BY <1>1, <1>4
<1>5. CASE xQueueSend
    <2>1. bPc = "send" /\ bPc' = "clear0" /\ UNCHANGED <<barcodeRead, decoded>>
        BY <1>5 DEF xQueueSend, isrVars
    <2>2. IsSequence(sent') /\ Len(sent') = Len(sent) + 1 /\ Len(sent) \in Nat
        BY <1>5, AppendOne DEF xQueueSend, BytesInv
    <2>3. unused' = unused - 3 /\ BytesInv'
        BY <2>1, <2>2 DEF unused, BytesInv, IsSequence
    <2> QED
        BY <2>1, <2>3, Counts
<1> QED
    BY <1>2, <1>3, <1>4, <1>5 DEF send_barcode_data

\* A byte that has been cleared is no longer counted.  What the interrupt moves
\* into it from the right still is, and has not been used.
LEMMA ClearKeeps == ASSUME IInv, clearBarcodeRead PROVE IInv'
<1> USE DEF IInv
<1>1. CASE Store("clear0", 0, noCharacter, "clear1")
    <2>1. /\ bPc = "clear0" /\ bPc' = "clear1" /\ UNCHANGED <<decoded, sent>>
          /\ barcodeRead' = [barcodeRead EXCEPT ![0] = noCharacter]
        BY <1>1 DEF Store, isrVars
    <2>2. BytesInv' /\ unused' = unused /\ taken(0)' = 0
        BY <2>1, InBytes, ByteStored, Zenon
    <2> QED
        BY <2>1, <2>2, Counts DEF UnusedInv, Bytes
<1>2. CASE Store("clear1", 1, noCharacter, "clear2")
    <2>1. /\ bPc = "clear1" /\ bPc' = "clear2" /\ UNCHANGED <<decoded, sent>>
          /\ barcodeRead' = [barcodeRead EXCEPT ![1] = noCharacter]
        BY <1>2 DEF Store, isrVars
    <2>2. BytesInv' /\ unused' = unused /\ taken(1)' = 0 /\ taken(0)' = taken(0)
        BY <2>1, InBytes, ByteStored, Zenon
    <2> QED
        BY <2>1, <2>2, Counts DEF UnusedInv, Bytes
<1>3. CASE Store("clear2", 2, noCharacter, "star0")
    <2>1. /\ bPc = "clear2" /\ bPc' = "star0" /\ UNCHANGED <<decoded, sent>>
          /\ barcodeRead' = [barcodeRead EXCEPT ![2] = noCharacter]
        BY <1>3 DEF Store, isrVars
    <2>2. BytesInv' /\ unused' = unused /\ taken(2)' = 0 /\ taken(0)' = taken(0) /\ taken(1)' = taken(1)
        BY <2>1, InBytes, ByteStored, Zenon
    <2> QED
        BY <2>1, <2>2, Counts DEF UnusedInv, Bytes
<1> QED
    BY <1>1, <1>2, <1>3 DEF clearBarcodeRead

\* The invariant of the race between interrupt and task.
THEOREM UnusedInvariant == SafetySpec => []IInv
<1>1. Init => IInv
    <2> SUFFICES ASSUME Init PROVE IInv
        OBVIOUS
    <2>1. BytesInv /\ bPc = "star0"
        BY DEF Init, BytesInv, IsSequence
    <2>2. unused = 0 /\ taken(0) = 0 /\ taken(1) = 0 /\ taken(2) = 0
        BY DEF Init, unused, taken, Bytes
    <2> QED
        BY <2>1, <2>2 DEF IInv, UnusedInv
<1>2. IInv /\ [Next]_vars => IInv'
    <2> SUFFICES ASSUME IInv, [Next]_vars PROVE IInv'
        OBVIOUS
    <2>1. CASE Edge
        BY <2>1, EdgeKeeps
    <2>2. CASE barcodeLaunch
        BY <2>2, CompareKeeps, SendKeeps, ClearKeeps DEF barcodeLaunch
    <2>3. CASE UNCHANGED <<bPc, sent, decoded, barcodeRead>>
        BY <2>3, BytesKept DEF IInv, UnusedInv, Bytes
    <2>4. recv_barcode \/ Request \/ UNCHANGED vars => UNCHANGED <<bPc, sent, decoded, barcodeRead>>
        BY DEF recv_barcode, Receive, set_barcode_data, Write, Request, vars, isrVars, taskVars
    <2> QED
        BY <2>1, <2>2, <2>3, <2>4 DEF Next
<1> QED
    BY <1>1, <1>2, PTL DEF SafetySpec

\* barcode_reader.c, isValidBarcode to clearBarcodeRead: every message takes three
\* characters that no other message takes, although the interrupt moves the bytes
\* under the task's hands.
THEOREM MessagesShareNothing == SafetySpec => []NoBarcodeTwice
<1>1. IInv => NoBarcodeTwice
    <2> SUFFICES ASSUME IInv PROVE unused >= 0
        BY DEF NoBarcodeTwice, unused, IInv, BytesInv
    <2> QED
        BY Counts DEF IInv, UnusedInv, Bytes
<1> QED
    BY <1>1, UnusedInvariant, PTL

----------------------------------------------------------------------------
\* What a message says

\* Neither an empty byte nor the asterisk that the task puts for a P.
isCharacter(c) == c \notin {noCharacter, "*"}

\* The asterisk is never read: P comes before it in the table and is its mirror
\* image.
LEMMA NeverAsterisk ==
    ASSUME NEW w
    PROVE  compareTwoArray(w) \in 0..26
<1> DEFINE S == {n \in Codes : sortBarType(w) \in {arrayMaps[n], reverseString(arrayMaps[n])}}
<1>1. compareTwoArray(w) = 0 \/ compareTwoArray(w) = firstOf(S)
    BY DEF compareTwoArray
<1>2. CASE S = {}
    BY <1>1, <1>2 DEF firstOf
<1>3. CASE S # {}
    <2>1. firstOf(S) \in Codes /\ \A m \in S : firstOf(S) <= m
        BY <1>3, FirstEntry
    <2>2. 27 \in S => 16 \in S
        <3>1. arrayMaps[27] = {2,5,7} /\ arrayMaps[16] = {3,5,8}
            BY DEF arrayMaps
        <3>2. reverseString({2,5,7}) = {3,5,8} /\ reverseString({3,5,8}) = {2,5,7}
            BY DEF reverseString
        <3> QED BY <3>1, <3>2 DEF Codes
    <2>3. firstOf(S) \in S
        BY <1>3, FirstEntry
    <2> QED BY <1>1, <2>1, <2>2, <2>3 DEF Codes
<1> QED BY <1>2, <1>3

LEMMA LettersAreCharacters == \A n \in 1..26 : isCharacter(characters[n])
<1> SUFFICES ASSUME NEW n \in 1..26 PROVE isCharacter(characters[n])
    OBVIOUS
<1>1. characters[n] \in {"A", "B", "C", "D", "E", "F", "G", "H", "I", "J", "K", "L", "M",
                         "N", "O", "P", "Q", "R", "S", "T", "U", "V", "W", "X", "Y", "Z"}
    BY DEF characters
<1> QED BY <1>1, Zenon DEF isCharacter, noCharacter

\* What the interrupt appends is a character.
LEMMA EdgeReads ==
    ASSUME Edge
    PROVE  \/ UNCHANGED <<barcodeRead, decoded, disturbed>>
           \/ \E c : /\ isCharacter(c) /\ appendToBarcodeRead(c)
                     /\ decoded' = Append(decoded, c) /\ disturbed' = (bPc # "star0")
<1>1. PICK length, colour : window' = addBarcode(window, length, colour)
    BY DEF Edge
<1> DEFINE next == nextBar(window, length, colour)
<1>2. CASE Fill
    BY <1>2 DEF Fill
<1>3. CASE Read /\ window'.match # 0
    <2>1. window' = decoded_as(next, compareTwoArray(next))
        <3>1. window.index = 10
            BY <1>3 DEF Read, BARCODE_BUF_SIZE
        <3>2. ~ (window.index < BARCODE_BUF_SIZE)
            BY <3>1 DEF BARCODE_BUF_SIZE
        <3> QED BY <1>1, <3>2, Zenon DEF addBarcode
    <2>2. next = [bars |-> next.bars, index |-> next.index, match |-> 0]
        BY DEF nextBar
    <2> HIDE DEF next
    <2>3. compareTwoArray(next) \in 0..26
        BY NeverAsterisk
    <2>4. window'.match = compareTwoArray(next)
        BY <1>3, <2>1, <2>2 DEF decoded_as, resetBarcodes
    <2>5. window'.match \in 1..26
        BY <1>3, <2>3, <2>4
    <2>6. isCharacter(characters[window'.match])
        BY <2>5, LettersAreCharacters
    <2> QED BY <1>3, <2>6 DEF Read
<1>4. CASE Read /\ window'.match = 0
    BY <1>4 DEF Read
<1> QED BY <1>2, <1>3, <1>4 DEF Edge

\* What can be read as a character was decoded, at the same distance from the
\* latest one.
PlaceInv ==
    \A n \in Bytes : isCharacter(barcodeRead[n]) =>
        Len(decoded) + n > 2 /\ barcodeRead[n] = lastThree[n]

\* The asterisks that the task has put there and failed to clear have nothing
\* before them when it looks again, so the first one is not taken for the
\* beginning of a bar code.
StarInv ==
    bPc \in {"star0", "star2", "P0", "P2", "clear2"} =>
        /\ barcodeRead[2] = "*" => barcodeRead[1] = noCharacter
        /\ barcodeRead[1] = "*" => barcodeRead[0] = noCharacter

seen    == lastThree[0] = "P" /\ lastThree[2] = "P"
starred == barcodeRead[0] = "*" /\ barcodeRead[2] = "*"

\* What the task knows of the bytes from its place in the program, as long as the
\* interrupt has not moved them since it began to look.
LookInv == ~disturbed =>
    /\ bPc = "star2" => barcodeRead[0] = "*"
    /\ bPc = "P2" => barcodeRead[0] = "P"
    /\ bPc = "set0" => barcodeRead[0] = "P" /\ barcodeRead[2] = "P" /\ barcodeRead[1] # "*"
    /\ bPc = "set2" => seen /\ barcodeRead[0] = "*" /\ barcodeRead[1] # "*"
    /\ bPc = "middle" => \/ barcodeRead[1] = noCharacter
                         \/ seen /\ starred /\ barcodeRead[1] # "*"
    /\ bPc \in {"copy0", "copy1", "copy2", "send"} => seen /\ starred /\ isCharacter(barcodeRead[1])
    /\ bPc \in {"copy1", "copy2", "send"} => message[0] = "*"
    /\ bPc \in {"copy2", "send"} => message[1] = barcodeRead[1]
    /\ bPc = "send" => message[2] = "*"

TextInv == message = [n \in Bytes |-> message[n]] /\ disturbed \in BOOLEAN

SeenInv == TextInv /\ PlaceInv /\ StarInv /\ LookInv /\ MessageIsBarcode

LEMMA LastThree == \A n \in Bytes : lastThree[n] = decoded[Len(decoded) - 2 + n]
BY DEF lastThree

\* A character that comes shifts the bytes and the places they stand for alike.
LEMMA EdgeSees == ASSUME IInv, SeenInv, Edge PROVE SeenInv'
<1>1. UNCHANGED <<bPc, message, sent>>
    BY DEF Edge, taskVars
<1>2. CASE UNCHANGED <<barcodeRead, decoded, disturbed>>
    BY <1>1, <1>2 DEF SeenInv, TextInv, PlaceInv, StarInv, LookInv, MessageIsBarcode,
                      lastThree, seen, starred
<1>3. ASSUME NEW c, isCharacter(c), appendToBarcodeRead(c), decoded' = Append(decoded, c),
             disturbed' = (bPc # "star0")
      PROVE  SeenInv'
    <2>1. barcodeRead'[0] = barcodeRead[1] /\ barcodeRead'[1] = barcodeRead[2] /\ barcodeRead'[2] = c
        BY <1>3 DEF appendToBarcodeRead, Bytes
    <2>2. /\ Len(decoded') = Len(decoded) + 1 /\ Len(decoded) \in Nat
          /\ \A n \in 1..Len(decoded) : decoded'[n] = decoded[n]
          /\ decoded'[Len(decoded) + 1] = c
        BY <1>3, AppendOne DEF IInv, BytesInv
    <2>3. \A n \in {0, 1} : Len(decoded) + n + 1 > 2 => lastThree'[n] = lastThree[n + 1]
        <3> SUFFICES ASSUME NEW n \in {0, 1}, Len(decoded) + n + 1 > 2
                     PROVE  lastThree'[n] = lastThree[n + 1]
            OBVIOUS
        <3>1. Len(decoded) - 2 + (n + 1) \in 1..Len(decoded)
            BY <2>2
        <3>2. lastThree'[n] = decoded'[Len(decoded') - 2 + n]
            BY DEF lastThree, Bytes
        <3>3. Len(decoded') - 2 + n = Len(decoded) - 2 + (n + 1)
            BY <2>2
        <3> QED BY <2>2, <3>1, <3>2, <3>3, LastThree DEF Bytes
    <2>4. lastThree'[2] = c
        BY <2>2 DEF lastThree, Bytes
    <2>5. PlaceInv'
        <3>1. \A n \in {0, 1} : isCharacter(barcodeRead[n + 1]) =>
                  Len(decoded) + n + 1 > 2 /\ barcodeRead[n + 1] = lastThree'[n]
            BY <2>2, <2>3 DEF SeenInv, PlaceInv, Bytes
        <3> QED BY <2>1, <2>2, <2>4, <3>1 DEF PlaceInv, Bytes
    <2>6. StarInv'
        BY <1>1, <1>3, <2>1 DEF SeenInv, StarInv, isCharacter
    <2>7. LookInv'
        BY <1>1, <1>3 DEF LookInv
    <2> QED BY <1>1, <1>3, <2>5, <2>6, <2>7 DEF SeenInv, TextInv, MessageIsBarcode
<1> QED BY <1>2, <1>3, EdgeReads

\* The steps that change neither the bytes nor what was decoded or sent.
LEMMA SameBytes ==
    ASSUME SeenInv, UNCHANGED <<barcodeRead, decoded, sent>>
    PROVE  PlaceInv' /\ MessageIsBarcode' /\ lastThree' = lastThree
BY DEF SeenInv, PlaceInv, MessageIsBarcode, lastThree

LEMMA CompareSees == ASSUME IInv, SeenInv, isValidBarcode PROVE SeenInv'
<1> USE InBytes DEF SeenInv
<1>1. ASSUME UNCHANGED <<barcodeRead, decoded, sent, message>>, disturbed' \in BOOLEAN,
             StarInv', LookInv'
      PROVE  SeenInv'
    BY <1>1, SameBytes DEF TextInv
<1>2. CASE Compare("star0", 0, FALSE, "*", "star2", "P0")
    <2>1. /\ bPc = "star0" /\ UNCHANGED <<barcodeRead, decoded, sent, message>>
          /\ (bPc' = "P0" \/ (bPc' = "star2" /\ barcodeRead[0] = "*")) /\ disturbed' = FALSE
        BY <1>2 DEF Compare, isrVars
    <2> QED BY <1>1, <2>1 DEF StarInv, LookInv, TextInv
<1>3. CASE Compare("star2", 2, FALSE, "*", "middle", "P0")
    <2>1. /\ bPc = "star2" /\ UNCHANGED <<barcodeRead, decoded, sent, message>>
          /\ bPc' = "P0" \/ (bPc' = "middle" /\ barcodeRead[2] = "*")
          /\ disturbed' = disturbed
        BY <1>3 DEF Compare, isrVars, TextInv
    <2> QED BY <1>1, <2>1 DEF StarInv, LookInv, TextInv
<1>4. CASE Compare("P0", 0, FALSE, "P", "P2", "star0")
    <2>1. /\ bPc = "P0" /\ UNCHANGED <<barcodeRead, decoded, sent, message>>
          /\ bPc' = "star0" \/ (bPc' = "P2" /\ barcodeRead[0] = "P")
          /\ disturbed' = disturbed
        BY <1>4 DEF Compare, isrVars, TextInv
    <2> QED BY <1>1, <2>1 DEF StarInv, LookInv, TextInv
<1>5. CASE Compare("P2", 2, FALSE, "P", "set0", "star0")
    <2>1. /\ bPc = "P2" /\ UNCHANGED <<barcodeRead, decoded, sent, message>>
          /\ bPc' = "star0" \/ (bPc' = "set0" /\ barcodeRead[2] = "P")
          /\ disturbed' = disturbed
        BY <1>5 DEF Compare, isrVars, TextInv
    <2>2. barcodeRead[0] = "P" => barcodeRead[1] # "*"
        BY <2>1, Zenon DEF StarInv, noCharacter
    <2> QED BY <1>1, <2>1, <2>2 DEF StarInv, LookInv, TextInv
<1>6. CASE Store("set0", 0, "*", "set2")
    <2>1. /\ bPc = "set0" /\ bPc' = "set2" /\ UNCHANGED <<decoded, sent, disturbed, message>>
          /\ barcodeRead' = [barcodeRead EXCEPT ![0] = "*"]
        BY <1>6 DEF Store, isrVars
    <2>2. /\ barcodeRead'[0] = "*" /\ barcodeRead'[1] = barcodeRead[1]
          /\ barcodeRead'[2] = barcodeRead[2]
        BY <2>1 DEF IInv, BytesInv
    <2>3. lastThree' = lastThree /\ MessageIsBarcode'
        BY <2>1 DEF lastThree, MessageIsBarcode
    <2>4. PlaceInv'
        BY <2>1, <2>2, <2>3 DEF PlaceInv, isCharacter, Bytes
    <2>5. isCharacter("P")
        BY Zenon DEF isCharacter, noCharacter
    <2>6. ~disturbed => seen
        BY <2>1, <2>5 DEF LookInv, PlaceInv, seen
    <2>7. LookInv'
        BY <2>1, <2>2, <2>3, <2>6 DEF LookInv, seen
    <2> QED BY <2>1, <2>3, <2>4, <2>7 DEF StarInv, TextInv
<1>7. CASE Store("set2", 2, "*", "middle")
    <2>1. /\ bPc = "set2" /\ bPc' = "middle" /\ UNCHANGED <<decoded, sent, disturbed, message>>
          /\ barcodeRead' = [barcodeRead EXCEPT ![2] = "*"]
        BY <1>7 DEF Store, isrVars
    <2>2. /\ barcodeRead'[2] = "*" /\ barcodeRead'[1] = barcodeRead[1]
          /\ barcodeRead'[0] = barcodeRead[0]
        BY <2>1 DEF IInv, BytesInv
    <2>3. lastThree' = lastThree /\ MessageIsBarcode'
        BY <2>1 DEF lastThree, MessageIsBarcode
    <2>4. PlaceInv'
        BY <2>1, <2>2, <2>3 DEF PlaceInv, isCharacter, Bytes
    <2>5. LookInv'
        BY <2>1, <2>2, <2>3 DEF LookInv, seen, starred
    <2> QED BY <2>1, <2>3, <2>4, <2>5 DEF StarInv, TextInv
<1>8. CASE Compare("middle", 1, TRUE, noCharacter, "copy0", "star0")
    <2>1. /\ bPc = "middle" /\ UNCHANGED <<barcodeRead, decoded, sent, message>>
          /\ \/ bPc' = "star0" /\ barcodeRead[1] = noCharacter
             \/ bPc' = "copy0" /\ barcodeRead[1] # noCharacter
          /\ disturbed' = disturbed
        BY <1>8 DEF Compare, isrVars, TextInv
    <2>2. barcodeRead[1] = noCharacter => barcodeRead[1] # "*"
        BY Zenon DEF noCharacter
    <2>3. LookInv'
        BY <2>1, SameBytes DEF LookInv, isCharacter, seen, starred
    <2> QED BY <1>1, <2>1, <2>2, <2>3 DEF StarInv, TextInv
<1> QED
    BY <1>2, <1>3, <1>4, <1>5, <1>6, <1>7, <1>8 DEF isValidBarcode

\* A message made of bytes that have stayed where they were is what was seen.
LEMMA SendSees == ASSUME IInv, SeenInv, send_barcode_data PROVE SeenInv'
<1> USE InBytes DEF SeenInv
<1>1. ASSUME NEW pc, NEW n \in Bytes, NEW next, Copy(pc, n, next),
             pc \in {"copy0", "copy1", "copy2"}, next \in {"copy1", "copy2", "send"}
      PROVE  /\ bPc = pc /\ bPc' = next /\ disturbed' = disturbed /\ barcodeRead' = barcodeRead
             /\ message'[n] = barcodeRead[n]
             /\ \A m \in Bytes \ {n} : message'[m] = message[m]
             /\ LookInv' => SeenInv'
    <2>1. /\ bPc = pc /\ bPc' = next /\ UNCHANGED <<barcodeRead, decoded, sent, disturbed>>
          /\ message' = [message EXCEPT ![n] = barcodeRead[n]]
        BY <1>1 DEF Copy, isrVars
    <2>2. message' = [m \in Bytes |-> IF m = n THEN barcodeRead[n] ELSE message[m]]
        BY <2>1 DEF TextInv
    <2>3. TextInv'
        BY <2>1, <2>2 DEF TextInv
    <2>4. StarInv'
        BY <1>1, <2>1 DEF StarInv
    <2> QED BY <1>1, <2>1, <2>2, <2>3, <2>4, SameBytes
<1>2. CASE Copy("copy0", 0, "copy1")
    <2>1. /\ bPc = "copy0" /\ bPc' = "copy1" /\ disturbed' = disturbed
          /\ message'[0] = barcodeRead[0] /\ barcodeRead' = barcodeRead
          /\ LookInv' => SeenInv'
        BY <1>1, <1>2
    <2>2. lastThree' = lastThree
        BY <1>2 DEF Copy, isrVars, lastThree
    <2> QED BY <2>1, <2>2 DEF LookInv, seen, starred
<1>3. CASE Copy("copy1", 1, "copy2")
    <2>1. /\ bPc = "copy1" /\ bPc' = "copy2" /\ disturbed' = disturbed
          /\ message'[1] = barcodeRead[1] /\ message'[0] = message[0]
          /\ barcodeRead' = barcodeRead
          /\ LookInv' => SeenInv'
        BY <1>1, <1>3
    <2>2. lastThree' = lastThree
        BY <1>3 DEF Copy, isrVars, lastThree
    <2> QED BY <2>1, <2>2 DEF LookInv, seen, starred
<1>4. CASE Copy("copy2", 2, "send")
    <2>1. /\ bPc = "copy2" /\ bPc' = "send" /\ disturbed' = disturbed
          /\ message'[2] = barcodeRead[2] /\ message'[0] = message[0] /\ message'[1] = message[1]
          /\ barcodeRead' = barcodeRead
          /\ LookInv' => SeenInv'
        BY <1>1, <1>4
    <2>2. lastThree' = lastThree
        BY <1>4 DEF Copy, isrVars, lastThree
    <2> QED BY <2>1, <2>2 DEF LookInv, seen, starred
<1>5. CASE xQueueSend
    <2> DEFINE new == [text |-> message, whole |-> ~disturbed, from |-> lastThree]
    <2>1. /\ bPc = "send" /\ bPc' = "clear0" /\ UNCHANGED <<barcodeRead, decoded, disturbed, message>>
          /\ sent' = Append(sent, new)
        BY <1>5 DEF xQueueSend, isrVars
    <2>2. ~disturbed => /\ lastThree[0] = "P" /\ lastThree[2] = "P"
                        /\ message = [n \in Bytes |-> IF n = 1 THEN lastThree[1] ELSE "*"]
        <3> SUFFICES ASSUME ~disturbed
                     PROVE  /\ lastThree[0] = "P" /\ lastThree[2] = "P"
                            /\ message = [n \in Bytes |-> IF n = 1 THEN lastThree[1] ELSE "*"]
            OBVIOUS
        <3>1. seen /\ message[0] = "*" /\ message[2] = "*" /\ message[1] = barcodeRead[1]
              /\ isCharacter(barcodeRead[1])
            BY <2>1 DEF LookInv
        <3>2. barcodeRead[1] = lastThree[1]
            BY <3>1 DEF PlaceInv
        <3>3. \A n \in Bytes : message[n] = IF n = 1 THEN lastThree[1] ELSE "*"
            BY <3>1, <3>2 DEF Bytes
        <3>4. message = [n \in Bytes |-> message[n]]
            BY DEF TextInv
        <3> QED BY <3>1, <3>3, <3>4 DEF seen
    <2>3. /\ Len(sent') = Len(sent) + 1 /\ Len(sent) \in Nat /\ IsSequence(sent) /\ IsSequence(sent')
          /\ \A k \in 1..Len(sent) : sent'[k] = sent[k]
          /\ sent'[Len(sent) + 1] = new
        BY <2>1, AppendOne DEF IInv, BytesInv
    <2>4. DOMAIN sent = 1..Len(sent) /\ DOMAIN sent' = 1..Len(sent) \cup {Len(sent) + 1}
        BY <2>3 DEF IsSequence
    <2>5. new.whole = ~disturbed /\ new.from = lastThree /\ new.text = message
        OBVIOUS
    <2> HIDE DEF new
    <2>6. MessageIsBarcode'
        BY <2>2, <2>3, <2>4, <2>5 DEF MessageIsBarcode
    <2>7. PlaceInv'
        BY <2>1 DEF PlaceInv, lastThree
    <2> QED BY <2>1, <2>6, <2>7 DEF TextInv, StarInv, LookInv
<1> QED
    BY <1>2, <1>3, <1>4, <1>5 DEF send_barcode_data

\* An asterisk may escape the clearing to the left, but nothing stays before it.
LEMMA ClearSees == ASSUME IInv, SeenInv, clearBarcodeRead PROVE SeenInv'
<1> USE DEF SeenInv
<1>1. ASSUME NEW pc, NEW n \in Bytes, NEW next, Store(pc, n, noCharacter, next),
             next \in {"clear1", "clear2", "star0"}
      PROVE  /\ bPc = pc /\ bPc' = next /\ barcodeRead'[n] = noCharacter
             /\ \A m \in Bytes \ {n} : barcodeRead'[m] = barcodeRead[m]
             /\ StarInv' => SeenInv'
    <2>1. /\ bPc = pc /\ bPc' = next /\ UNCHANGED <<decoded, sent, disturbed, message>>
          /\ barcodeRead' = [barcodeRead EXCEPT ![n] = noCharacter]
        BY <1>1 DEF Store, isrVars
    <2>2. barcodeRead' = [m \in Bytes |-> IF m = n THEN noCharacter ELSE barcodeRead[m]]
        BY <2>1 DEF IInv, BytesInv
    <2>3. lastThree' = lastThree /\ MessageIsBarcode' /\ TextInv'
        BY <2>1 DEF lastThree, MessageIsBarcode, TextInv
    <2>4. PlaceInv'
        BY <2>1, <2>2, <2>3 DEF PlaceInv, isCharacter
    <2>5. LookInv'
        BY <1>1, <2>1 DEF LookInv
    <2> QED BY <2>1, <2>2, <2>3, <2>4, <2>5
<1>2. CASE Store("clear0", 0, noCharacter, "clear1")
    <2>1. bPc' = "clear1" /\ (StarInv' => SeenInv')
        BY <1>1, <1>2, InBytes
    <2> QED BY <2>1 DEF StarInv
<1>3. CASE Store("clear1", 1, noCharacter, "clear2")
    <2>1. bPc' = "clear2" /\ barcodeRead'[1] = noCharacter /\ (StarInv' => SeenInv')
        BY <1>1, <1>3, InBytes
    <2>2. barcodeRead'[1] # "*"
        BY <2>1, Zenon DEF noCharacter
    <2> QED BY <2>1, <2>2 DEF StarInv
<1>4. CASE Store("clear2", 2, noCharacter, "star0")
    <2>1. /\ bPc = "clear2" /\ bPc' = "star0" /\ barcodeRead'[2] = noCharacter
          /\ barcodeRead'[0] = barcodeRead[0] /\ barcodeRead'[1] = barcodeRead[1]
          /\ StarInv' => SeenInv'
        BY <1>1, <1>4, InBytes
    <2>2. barcodeRead'[2] # "*"
        BY <2>1, Zenon DEF noCharacter
    <2> QED BY <2>1, <2>2 DEF StarInv
<1> QED
    BY <1>2, <1>3, <1>4 DEF clearBarcodeRead

LEMMA SeenInvariant == SafetySpec => []SeenInv
<1>1. Init => SeenInv
    <2> SUFFICES ASSUME Init PROVE SeenInv
        OBVIOUS
    <2>1. barcodeRead[0] = noCharacter /\ barcodeRead[1] = noCharacter /\ barcodeRead[2] = noCharacter
        BY DEF Init, Bytes
    <2>2. PlaceInv
        BY <2>1 DEF PlaceInv, isCharacter, Bytes
    <2>3. StarInv
        BY <2>1, Zenon DEF StarInv, noCharacter
    <2>4. TextInv
        <3>1. message = [n \in Bytes |-> noCharacter] /\ disturbed = FALSE
            BY DEF Init
        <3> QED BY <3>1 DEF TextInv
    <2> QED BY <2>2, <2>3, <2>4 DEF Init, SeenInv, LookInv, MessageIsBarcode
<1>2. IInv /\ SeenInv /\ [Next]_vars => SeenInv'
    <2> SUFFICES ASSUME IInv, SeenInv, [Next]_vars PROVE SeenInv'
        OBVIOUS
    <2>1. CASE UNCHANGED <<bPc, message, sent, decoded, barcodeRead, disturbed>>
        BY <2>1 DEF SeenInv, TextInv, PlaceInv, StarInv, LookInv, MessageIsBarcode, lastThree,
                    seen, starred
    <2>2. recv_barcode \/ Request \/ UNCHANGED vars =>
              UNCHANGED <<bPc, message, sent, decoded, barcodeRead, disturbed>>
        BY DEF recv_barcode, Receive, set_barcode_data, Write, Request, vars, isrVars, taskVars
    <2> QED
        BY <2>1, <2>2, EdgeSees, CompareSees, SendSees, ClearSees DEF Next, barcodeLaunch
<1> QED
    BY <1>1, <1>2, UnusedInvariant, PTL DEF SafetySpec

\* barcode_reader.c, isValidBarcode to send_barcode_data: a message that no character
\* came into between the first look and the last is the letter that was decoded
\* between two asterisks, which are read as P; what earlier bar codes left in the
\* bytes is never taken for part of it.
THEOREM MessagesAreBarcodes == SafetySpec => []MessageIsBarcode
<1>1. SeenInv => MessageIsBarcode
    BY DEF SeenInv
<1> QED BY <1>1, SeenInvariant, PTL

----------------------------------------------------------------------------
\* What the page shows

isSent(text) == \E m \in 1..Len(sent) : text = sent[m].text

\* The receiver has stored some bytes of the n-th message, or all of it.
TakenInv(n) ==
    /\ \A b \in Bytes : received[b] = textOf(n)[b]
    /\ rPc = "wait" => same(0, page, textOf(n))
    /\ rPc # "wait" => \A b \in Text : b < stored => page[b] = textOf(n)[b]

\* The bytes it has not written, from any of them on, end as a message does.
RestInv == \A s \in Text : rPc = "wait" \/ s >= stored =>
               \E m \in 0..Len(sent) : same(s, page, textOf(m))

PageInv ==
    /\ IsSequence(queue) /\ page = [k \in Text |-> page[k]]
    /\ rPc \in {"wait", "0", "1", "2", "3"}
    /\ \A n \in 1..Len(queue) : isSent(queue[n])
    /\ \E n \in 0..Len(sent) : TakenInv(n)
    /\ RestInv

LEMMA Bits == /\ Text = {0, 1, 2, 3} /\ Bytes = {0, 1, 2}
              /\ \A b \in Text : b \in Int /\ (b < 3 <=> b \in Bytes)
BY DEF Text, Bytes

LEMMA TextAt ==
    ASSUME NEW k, NEW b \in Text
    PROVE  textOf(k)[b] = IF k # 0 /\ b < 3 THEN sent[k].text[b] ELSE noCharacter
BY DEF textOf

\* What is left of a queue.
LEMMA TailOne ==
    ASSUME NEW s, IsSequence(s), s # <<>>
    PROVE  /\ IsSequence(Tail(s)) /\ Len(s) \in Nat \ {0} /\ Len(Tail(s)) = Len(s) - 1
           /\ Head(s) = s[1]
           /\ \A n \in 1..Len(Tail(s)) : Tail(s)[n] = s[n + 1]
<1> DEFINE S == {s[n] : n \in 1..Len(s)}
<1> DEFINE t == Tail(s)
<1>1. s \in Seq(S) /\ Len(s) \in Nat
    BY DEF IsSequence
<1>2. Len(s) # 0
    BY <1>1
<1>3. t \in Seq(S) /\ Len(t) = Len(s) - 1 /\ \A n \in 1..Len(t) : t[n] = s[n + 1]
    BY <1>1, <1>2
<1>4. t \in Seq({t[n] : n \in 1..Len(t)})
    <2> HIDE DEF t
    <2>1. Len(t) \in Nat /\ t \in [1..Len(t) -> S]
        BY <1>3
    <2> QED BY <2>1
<1> QED BY <1>1, <1>2, <1>3, <1>4 DEF IsSequence, t

\* What has been sent stays.
LEMMA TextsKept ==
    ASSUME Len(sent) \in Nat, Len(sent') \in Nat, Len(sent) <= Len(sent'),
           \A k \in 1..Len(sent) : sent'[k] = sent[k]
    PROVE  \A k \in 0..Len(sent) : k \in 0..Len(sent') /\ textOf(k)' = textOf(k)
<1> SUFFICES ASSUME NEW k \in 0..Len(sent)
             PROVE  k \in 0..Len(sent') /\ textOf(k)' = textOf(k)
    OBVIOUS
<1>1. CASE k = 0
    BY <1>1 DEF textOf
<1>2. CASE k # 0
    <2>1. sent'[k] = sent[k]
        BY <1>2
    <2> QED BY <2>1 DEF textOf
<1> QED BY <1>1, <1>2

\* The receiver and its page are left alone.
LEMMA PageKept ==
    ASSUME PageInv, Len(sent) \in Nat, Len(sent') \in Nat, Len(sent) <= Len(sent'),
           \A k \in 1..Len(sent) : sent'[k] = sent[k],
           UNCHANGED recvVars
    PROVE  /\ page' = [k \in Text |-> page'[k]] /\ rPc' \in {"wait", "0", "1", "2", "3"}
           /\ \A text : isSent(text) => isSent(text)'
           /\ \E n \in 0..Len(sent') : TakenInv(n)'
           /\ RestInv'
<1>1. rPc' = rPc /\ received' = received /\ page' = page /\ stored' = stored
    BY DEF recvVars, stored
<1>2. \A k \in 0..Len(sent) : k \in 0..Len(sent') /\ textOf(k)' = textOf(k)
    BY TextsKept
<1>3. \E n \in 0..Len(sent') : TakenInv(n)'
    <2>1. PICK n \in 0..Len(sent) : TakenInv(n)
        BY DEF PageInv
    <2>2. textOf(n)' = textOf(n)
        BY <1>2
    <2>3. TakenInv(n)'
        BY <1>1, <2>1, <2>2 DEF TakenInv
    <2> QED BY <1>2, <2>3
<1>4. RestInv'
    <2> SUFFICES ASSUME NEW s \in Text, rPc' = "wait" \/ s >= stored'
                 PROVE  \E m \in 0..Len(sent') : same(s, page', textOf(m)')
        BY DEF RestInv
    <2>1. PICK m \in 0..Len(sent) : same(s, page, textOf(m))
        BY <1>1 DEF PageInv, RestInv
    <2>2. textOf(m)' = textOf(m) /\ m \in 0..Len(sent')
        BY <1>2
    <2>3. same(s, page', textOf(m)')
        BY <1>1, <2>1, <2>2
    <2> QED BY <2>2, <2>3
<1>5. \A text : isSent(text) => isSent(text)'
    <2> SUFFICES ASSUME NEW text, NEW k \in 1..Len(sent), text = sent[k].text
                 PROVE  \E m \in 1..Len(sent') : text = sent'[m].text
        BY DEF isSent
    <2>1. k \in 1..Len(sent') /\ sent'[k] = sent[k]
        OBVIOUS
    <2> QED BY <2>1
<1> QED BY <1>1, <1>3, <1>4, <1>5 DEF PageInv

LEMMA SendPage == ASSUME IInv, PageInv, xQueueSend PROVE PageInv'
<1> DEFINE new == [text |-> message, whole |-> ~disturbed, from |-> lastThree]
<1>1. /\ sent' = Append(sent, new) /\ new.text = message /\ UNCHANGED recvVars
      /\ queue' = IF Len(queue) < QueueLen THEN Append(queue, message) ELSE queue
    BY DEF xQueueSend
<1> HIDE DEF new
<1>2. /\ Len(sent) \in Nat /\ Len(sent') = Len(sent) + 1
      /\ \A k \in 1..Len(sent) : sent'[k] = sent[k]
      /\ sent'[Len(sent) + 1] = new
    BY <1>1, AppendOne DEF IInv, BytesInv
<1>3. Len(sent') \in Nat /\ Len(sent) <= Len(sent')
    BY <1>2
<1>4. /\ page' = [k \in Text |-> page'[k]] /\ rPc' \in {"wait", "0", "1", "2", "3"}
      /\ \A text : isSent(text) => isSent(text)'
      /\ \E n \in 0..Len(sent') : TakenInv(n)'
      /\ RestInv'
    BY <1>1, <1>2, <1>3, PageKept
<1>5. isSent(message)'
    <2>1. Len(sent) + 1 \in 1..Len(sent') /\ sent'[Len(sent) + 1].text = message
        BY <1>1, <1>2
    <2>2. message' = message
        BY DEF xQueueSend
    <2> QED BY <2>1, <2>2 DEF isSent
<1>6. IsSequence(queue') /\ \A n \in 1..Len(queue') : isSent(queue[n])'
    <2>1. CASE Len(queue) < QueueLen
        <3>1. queue' = Append(queue, message)
            BY <1>1, <2>1
        <3>2. /\ IsSequence(queue') /\ Len(queue) \in Nat /\ Len(queue') = Len(queue) + 1
              /\ \A n \in 1..Len(queue) : queue'[n] = queue[n]
              /\ queue'[Len(queue) + 1] = message
            BY <3>1, AppendOne DEF PageInv
        <3> QED BY <1>4, <1>5, <3>2 DEF PageInv, isSent, xQueueSend
    <2>2. CASE ~ (Len(queue) < QueueLen)
        <3>1. queue' = queue
            BY <1>1, <2>2
        <3> QED BY <1>4, <3>1 DEF PageInv, isSent
    <2> QED BY <2>1, <2>2
<1> QED BY <1>4, <1>6 DEF PageInv, isSent

\* Receiving takes one that was sent.
LEMMA ReceivePage == ASSUME IInv, PageInv, Receive PROVE PageInv'
<1>1. /\ rPc = "wait" /\ rPc' = "0" /\ queue # <<>> /\ received' = Head(queue)
      /\ queue' = Tail(queue) /\ page' = page /\ sent' = sent
    BY DEF Receive, taskVars
<1>2. /\ IsSequence(queue') /\ Len(queue) \in Nat \ {0} /\ Len(queue') = Len(queue) - 1
      /\ received' = queue[1] /\ \A n \in 1..Len(queue') : queue'[n] = queue[n + 1]
    BY <1>1, TailOne DEF PageInv
<1>3. stored' = 0 /\ \A k : textOf(k)' = textOf(k)
    BY <1>1 DEF stored, textOf
<1>4. \E n \in 0..Len(sent') : TakenInv(n)'
    <2>1. PICK n \in 1..Len(sent) : queue[1] = sent[n].text
        BY <1>2 DEF PageInv, isSent
    <2>2. n # 0 /\ n \in 0..Len(sent')
        BY <1>1 DEF IInv, BytesInv
    <2>3. \A b \in Bytes : received'[b] = textOf(n)[b]
        BY <1>2, <2>1, <2>2, TextAt, Bits
    <2>4. \A b \in Text : ~ (b < stored')
        BY <1>3, Bits
    <2>5. TakenInv(n)'
        BY <1>1, <1>3, <2>3, <2>4 DEF TakenInv
    <2> QED BY <2>2, <2>5
<1>5. RestInv'
    BY <1>1, <1>3 DEF PageInv, RestInv
<1>6. ASSUME NEW n \in 1..Len(queue')
      PROVE  \E m \in 1..Len(sent') : queue'[n] = sent'[m].text
    <2>1. n + 1 \in 1..Len(queue) /\ queue'[n] = queue[n + 1]
        BY <1>2
    <2>2. isSent(queue[n + 1])
        BY <2>1 DEF PageInv
    <2> QED BY <1>1, <2>1, <2>2 DEF isSent
<1> QED BY <1>1, <1>2, <1>4, <1>5, <1>6 DEF PageInv, isSent

\* One byte of the page is written, s: if it ends the string, so does the page.
LEMMA WriteByte ==
    ASSUME PageInv, NEW s \in Text, NEW c, NEW next \in {"wait", "1", "2", "3"},
           rPc # "wait", stored = s, UNCHANGED <<queue, sent, received>>,
           page' = [page EXCEPT ![s] = c],
           c = IF s < 3 THEN received[s] ELSE noCharacter,
           rPc' = IF c = noCharacter THEN "wait" ELSE next,
           s < 3 => next # "wait" /\ (rPc' = next => stored' = s + 1)
    PROVE  PageInv'
<1>1. PICK n \in 0..Len(sent) : TakenInv(n)
    BY DEF PageInv
<1>2. /\ page'[s] = c /\ \A b \in Text : b # s => page'[b] = page[b]
      /\ page' = [k \in Text |-> page'[k]]
    BY DEF PageInv
<1>3. \A k : textOf(k)' = textOf(k)
    BY DEF textOf
<1>4. c = textOf(n)[s]
    <2>1. CASE s < 3
        BY <1>1, <2>1, Bits DEF TakenInv
    <2>2. CASE ~ (s < 3)
        BY <2>2, TextAt
    <2> QED BY <2>1, <2>2
<1>5. \A b \in Text : b < s + 1 => page'[b] = textOf(n)[b]
    BY <1>1, <1>2, <1>4, Bits DEF TakenInv
<1>6. rPc' = "wait" <=> c = noCharacter
    BY Bits
<1>7. ASSUME c = noCharacter, NEW t \in Text, t <= s
      PROVE  same(t, page', textOf(n))
    BY <1>2, <1>5, <1>7, Bits DEF same
<1>8. \A t \in Text : \A q : t > s /\ same(t, page, q) => same(t, page', q)
    BY <1>2, Bits DEF same
<1>9. c # noCharacter => s < 3 /\ stored' = s + 1
    BY Bits
<1>10. TakenInv(n)'
    <2>1. \A b \in Bytes : received'[b] = textOf(n)'[b]
        BY <1>1, <1>3 DEF TakenInv
    <2>2. ASSUME rPc' = "wait" PROVE same(0, page', textOf(n)')
        <3>1. 0 \in Text /\ 0 <= s
            BY Bits
        <3>2. same(0, page', textOf(n))
            BY <1>6, <1>7, <2>2, <3>1
        <3> QED BY <1>3, <3>2
    <2>3. rPc' # "wait" => \A b \in Text : b < stored' => page'[b] = textOf(n)'[b]
        BY <1>3, <1>5, <1>6, <1>9
    <2> QED BY <2>1, <2>2, <2>3 DEF TakenInv
<1>11. RestInv'
    <2> SUFFICES ASSUME NEW t \in Text, rPc' = "wait" \/ t >= stored'
                 PROVE  \E m \in 0..Len(sent) : same(t, page', textOf(m))
        BY <1>3 DEF RestInv
    <2>1. CASE t <= s
        <3>1. c = noCharacter
            BY <1>9, <2>1, Bits
        <3>2. same(t, page', textOf(n))
            BY <1>7, <2>1, <3>1
        <3> QED BY <3>2
    <2>2. CASE t > s
        <3>1. t >= stored
            BY <2>2, Bits
        <3>2. PICK m \in 0..Len(sent) : same(t, page, textOf(m))
            BY <3>1 DEF PageInv, RestInv
        <3> QED BY <1>8, <2>2, <3>2
    <2>3. t <= s \/ t > s
        BY Bits
    <2> QED BY <2>1, <2>2, <2>3
<1>12. rPc' \in {"wait", "0", "1", "2", "3"}
    OBVIOUS
<1>13. \A k \in 1..Len(queue') : isSent(queue[k])'
    BY DEF PageInv, isSent
<1> QED BY <1>1, <1>2, <1>10, <1>11, <1>12, <1>13 DEF PageInv, isSent

LEMMA WritePage == ASSUME PageInv, set_barcode_data PROVE PageInv'
<1>1. UNCHANGED <<queue, sent, received>>
    BY DEF set_barcode_data, Write, taskVars
<1>2. /\ rPc = "0" => stored = 0
      /\ rPc = "1" => stored = 1
      /\ rPc = "2" => stored = 2
      /\ rPc = "3" => stored = 3
      /\ rPc' = "1" => stored' = 1
      /\ rPc' = "2" => stored' = 2
      /\ rPc' = "3" => stored' = 3
    BY DEF stored
<1>3. CASE Write("0", 0, received[0], "1")
    <2>1. /\ rPc = "0" /\ page' = [page EXCEPT ![0] = received[0]]
          /\ rPc' = IF received[0] = noCharacter THEN "wait" ELSE "1"
        BY <1>3 DEF Write
    <2> DEFINE c == received[0]
    <2>2. /\ 0 \in Text /\ "1" \in {"wait", "1", "2", "3"} /\ rPc # "wait" /\ stored = 0
          /\ c = IF 0 < 3 THEN received[0] ELSE noCharacter
          /\ rPc' = IF c = noCharacter THEN "wait" ELSE "1"
          /\ 0 < 3 => "1" # "wait" /\ (rPc' = "1" => stored' = 0 + 1)
          /\ page' = [page EXCEPT ![0] = c]
        BY <1>2, <2>1, Bits
    <2> HIDE DEF c
    <2> QED BY <1>1, <2>2, WriteByte
<1>4. CASE Write("1", 1, received[1], "2")
    <2>1. /\ rPc = "1" /\ page' = [page EXCEPT ![1] = received[1]]
          /\ rPc' = IF received[1] = noCharacter THEN "wait" ELSE "2"
        BY <1>4 DEF Write
    <2> DEFINE c == received[1]
    <2>2. /\ 1 \in Text /\ "2" \in {"wait", "1", "2", "3"} /\ rPc # "wait" /\ stored = 1
          /\ c = IF 1 < 3 THEN received[1] ELSE noCharacter
          /\ rPc' = IF c = noCharacter THEN "wait" ELSE "2"
          /\ 1 < 3 => "2" # "wait" /\ (rPc' = "2" => stored' = 1 + 1)
          /\ page' = [page EXCEPT ![1] = c]
        BY <1>2, <2>1, Bits
    <2> HIDE DEF c
    <2> QED BY <1>1, <2>2, WriteByte
<1>5. CASE Write("2", 2, received[2], "3")
    <2>1. /\ rPc = "2" /\ page' = [page EXCEPT ![2] = received[2]]
          /\ rPc' = IF received[2] = noCharacter THEN "wait" ELSE "3"
        BY <1>5 DEF Write
    <2> DEFINE c == received[2]
    <2>2. /\ 2 \in Text /\ "3" \in {"wait", "1", "2", "3"} /\ rPc # "wait" /\ stored = 2
          /\ c = IF 2 < 3 THEN received[2] ELSE noCharacter
          /\ rPc' = IF c = noCharacter THEN "wait" ELSE "3"
          /\ 2 < 3 => "3" # "wait" /\ (rPc' = "3" => stored' = 2 + 1)
          /\ page' = [page EXCEPT ![2] = c]
        BY <1>2, <2>1, Bits
    <2> HIDE DEF c
    <2> QED BY <1>1, <2>2, WriteByte
<1>6. CASE Write("3", 3, noCharacter, "wait")
    <2>1. /\ rPc = "3" /\ page' = [page EXCEPT ![3] = noCharacter]
          /\ rPc' = "wait"
        BY <1>6 DEF Write
    <2> DEFINE c == noCharacter
    <2>2. /\ 3 \in Text /\ "wait" \in {"wait", "1", "2", "3"} /\ rPc # "wait" /\ stored = 3
          /\ c = IF 3 < 3 THEN received[3] ELSE noCharacter
          /\ rPc' = IF c = noCharacter THEN "wait" ELSE "wait"
          /\ 3 < 3 => "wait" # "wait" /\ (rPc' = "wait" => stored' = 3 + 1)
          /\ page' = [page EXCEPT ![3] = c]
        BY <1>2, <2>1, Bits
    <2> HIDE DEF c
    <2> QED BY <1>1, <2>2, WriteByte
<1> QED BY <1>3, <1>4, <1>5, <1>6 DEF set_barcode_data

LEMMA PageInvariant == SafetySpec => []PageInv
<1>1. Init => PageInv
    <2> SUFFICES ASSUME Init PROVE PageInv
        OBVIOUS
    <2>1. /\ queue = <<>> /\ sent = <<>> /\ rPc = "wait" /\ page = [k \in Text |-> noCharacter]
          /\ received = [n \in Bytes |-> noCharacter]
        BY DEF Init
    <2>2. \A b \in Text : page[b] = noCharacter /\ textOf(0)[b] = noCharacter
        BY <2>1, TextAt
    <2>3. \A s \in Text : same(s, page, textOf(0))
        BY <2>2 DEF same
    <2>4. IsSequence(queue) /\ Len(queue) = 0 /\ 0 \in 0..Len(sent)
        BY <2>1 DEF IsSequence
    <2>5. TakenInv(0)
        BY <2>1, <2>2, <2>3, Bits DEF TakenInv
    <2>6. RestInv
        BY <2>3, <2>4 DEF RestInv
    <2> QED BY <2>1, <2>4, <2>5, <2>6 DEF PageInv
<1>2. IInv /\ PageInv /\ [Next]_vars => PageInv'
    <2> SUFFICES ASSUME IInv, PageInv, [Next]_vars PROVE PageInv'
        OBVIOUS
    <2>1. CASE UNCHANGED <<queue, sent, rPc, received, page>>
        <3>1. /\ Len(sent) \in Nat /\ Len(sent') \in Nat /\ Len(sent) <= Len(sent')
              /\ \A k \in 1..Len(sent) : sent'[k] = sent[k]
            BY <2>1 DEF IInv, BytesInv
        <3>2. UNCHANGED recvVars /\ queue' = queue
            BY <2>1 DEF recvVars
        <3>3. /\ page' = [k \in Text |-> page'[k]] /\ rPc' \in {"wait", "0", "1", "2", "3"}
              /\ \A text : isSent(text) => isSent(text)'
              /\ \E n \in 0..Len(sent') : TakenInv(n)'
              /\ RestInv'
            BY <3>1, <3>2, PageKept
        <3> QED BY <3>2, <3>3 DEF PageInv, isSent
    <2>2. \/ Edge \/ isValidBarcode \/ clearBarcodeRead \/ Request \/ UNCHANGED vars
          \/ (send_barcode_data /\ ~xQueueSend)
          => UNCHANGED <<queue, sent, rPc, received, page>>
        BY DEF Edge, isValidBarcode, clearBarcodeRead, Compare, Store, Request, vars,
               send_barcode_data, Copy, taskVars, recvVars
    <2> QED
        BY <2>1, <2>2, SendPage, ReceivePage, WritePage
        DEF Next, barcodeLaunch, recv_barcode, send_barcode_data
<1> QED
    BY <1>1, <1>2, UnusedInvariant, PTL DEF SafetySpec

LEMMA OverlaidAt ==
    ASSUME NEW n, NEW m, NEW b \in Text
    PROVE  overlaid(n, m)[b] = IF b < stored THEN textOf(n)[b] ELSE textOf(m)[b]
BY DEF overlaid

\* Two messages no character came into differ in the middle only, and so do their pages.
LEMMA WholeTexts ==
    ASSUME SeenInv, IInv, NEW n \in 0..Len(sent), NEW m \in 0..Len(sent),
           ~ \E k \in {n, m} : k = 0 \/ ~sent[k].whole
    PROVE  \A b \in Text : b # 1 => textOf(n)[b] = textOf(m)[b]
<1>1. \A k \in {n, m} : k \in DOMAIN sent /\ sent[k].whole
    BY DEF IInv, BytesInv, IsSequence
<1>2. \A k \in {n, m} : sent[k].text = [b \in Bytes |-> IF b = 1 THEN sent[k].from[1] ELSE "*"]
    BY <1>1 DEF SeenInv, MessageIsBarcode
<1>3. \A k \in {n, m} : sent[k].text[0] = "*" /\ sent[k].text[2] = "*"
    BY <1>2, InBytes
<1> QED BY <1>3, TextAt, Bits

\* ssi.h, set_barcode_data against ssi_handler: though the page is written byte by
\* byte under the web server's eyes, and whatever the interrupt has put into the
\* messages, it shows what is stored of the last one over an earlier page, and one
\* of the two if no character came into either.
THEOREM PageIsTwoMessages == SafetySpec => []PageShowsBarcode
<1>1. IInv /\ SeenInv /\ PageInv => PageShowsBarcode
    <2> SUFFICES ASSUME IInv, SeenInv, PageInv
                 PROVE  PageShowsBarcode
        OBVIOUS
    <2>1. PICK n \in 0..Len(sent) : TakenInv(n)
        BY DEF PageInv
    <2>2. /\ \A b \in Bytes : received[b] = textOf(n)[b]
          /\ stored \in {0, 1, 2, 3, 4} /\ (rPc = "wait" <=> stored = 4)
        BY <2>1 DEF TakenInv, PageInv, stored
    <2>3. CASE rPc = "wait"
        <3>1. \A b \in Text : overlaid(n, n)[b] = textOf(n)[b]
            BY OverlaidAt
        <3>2. same(0, page, textOf(n))
            BY <2>1, <2>3 DEF TakenInv
        <3>3. same(0, page, overlaid(n, n))
            BY <3>1, <3>2 DEF same
        <3> QED BY <2>2, <3>2, <3>3 DEF PageShowsBarcode
    <2>4. CASE rPc # "wait"
        <3>1. stored \in Text
            BY <2>2, <2>4, Bits
        <3>2. PICK m \in 0..Len(sent) : same(stored, page, textOf(m))
            BY <3>1, Bits DEF PageInv, RestInv
        <3>3. \A b \in Text : b < stored => page[b] = textOf(n)[b]
            BY <2>1, <2>4 DEF TakenInv
        <3>4. same(0, page, overlaid(n, m))
            BY <3>1, <3>2, <3>3, OverlaidAt, Bits DEF same
        <3>5. ASSUME ~ \E k \in {n, m} : k = 0 \/ ~sent[k].whole
              PROVE  same(0, page, textOf(n)) \/ same(0, page, textOf(m))
            <4>1. \A b \in Text : b # 1 => textOf(n)[b] = textOf(m)[b]
                BY <3>5, WholeTexts
            <4>2. stored < 2 => \A b \in Text : overlaid(n, m)[b] = textOf(m)[b]
                BY <2>2, <4>1, OverlaidAt, Bits
            <4>3. stored >= 2 => \A b \in Text : overlaid(n, m)[b] = textOf(n)[b]
                BY <2>2, <4>1, OverlaidAt, Bits
            <4> QED BY <2>2, <3>4, <4>2, <4>3 DEF same
        <3> QED BY <2>2, <3>4, <3>5 DEF PageShowsBarcode
    <2> QED BY <2>3, <2>4
<1> QED BY <1>1, UnusedInvariant, SeenInvariant, PageInvariant, PTL

----------------------------------------------------------------------------
\* The table, searched in both directions

\* The first entry that is m or its mirror image.
twin(m) == IF m <= 20 THEN m ELSE <<11, 18, 17, 15, 14, 20, 16>>[m - 20]

LEMMA Twins == /\ \A m \in 1..20 : twin(m) = m
               /\ twin(21) = 11 /\ twin(22) = 18 /\ twin(23) = 17 /\ twin(24) = 15
               /\ twin(25) = 14 /\ twin(26) = 20 /\ twin(27) = 16
BY DEF twin

\* The last seven characters mirror earlier ones.
LEMMA Mirrored ==
    /\ reverseString({1,8,9}) = {1,2,9} /\ reverseString({1,7,8}) = {2,3,9}
    /\ reverseString({7,8,9}) = {1,2,3} /\ reverseString({1,5,8}) = {2,5,9}
    /\ reverseString({5,8,9}) = {1,2,5} /\ reverseString({5,7,8}) = {2,3,5}
    /\ reverseString({3,5,8}) = {2,5,7}
BY DEF reverseString

LEMMA TwinsMirror == \A m \in 21..27 : reverseString(arrayMaps[twin(m)]) = arrayMaps[m]
<1> SUFFICES ASSUME NEW m \in 21..27 PROVE reverseString(arrayMaps[twin(m)]) = arrayMaps[m]
    OBVIOUS
<1>1. m = 21 \/ m = 22 \/ m = 23 \/ m = 24 \/ m = 25 \/ m = 26 \/ m = 27
    OBVIOUS
<1>2. /\ reverseString(arrayMaps[11]) = arrayMaps[21] /\ reverseString(arrayMaps[18]) = arrayMaps[22]
      /\ reverseString(arrayMaps[17]) = arrayMaps[23] /\ reverseString(arrayMaps[15]) = arrayMaps[24]
      /\ reverseString(arrayMaps[14]) = arrayMaps[25] /\ reverseString(arrayMaps[20]) = arrayMaps[26]
      /\ reverseString(arrayMaps[16]) = arrayMaps[27]
    BY Mirrored, Maps
<1> QED BY <1>1, <1>2, Twins

LEMMA TwinCode == \A m \in Codes : twin(m) \in 1..20
BY EachCode, Twins

\* No entry before its twin is the mirror image of a character.
LEMMA TwinIsFirst ==
    \A j, m \in Codes : arrayMaps[m] = reverseString(arrayMaps[j]) => twin(m) <= j
<1> SUFFICES ASSUME NEW j \in Codes, NEW m \in Codes, arrayMaps[m] = reverseString(arrayMaps[j])
             PROVE  twin(m) <= j
    OBVIOUS
<1> QED BY EachCode, Maps, BarsReversed, Twins

\* compareTwoArray of the wide bars.
bothWays(W) == firstOf({n \in Codes : W \in {arrayMaps[n], reverseString(arrayMaps[n])}})

\* Searching the table in both directions finds the first of a character and its
\* mirror image.
LEMMA TableFinds ==
    ASSUME NEW j \in Codes, NEW W, W \in {arrayMaps[j], reverseString(arrayMaps[j])}
    PROVE  bothWays(W) = twin(j)
<1> DEFINE S == {n \in Codes : W \in {arrayMaps[n], reverseString(arrayMaps[n])}}
<1>1. \A n \in Codes : reverseString(reverseString(arrayMaps[n])) = arrayMaps[n]
    BY MapsArePositions, ReversedTwice
<1>2. twin(j) \in Nat /\ twin(j) <= j /\ twin(j) \in Codes /\ j \in Nat
    BY EachCode, Twins DEF Codes
<1>3. \A n \in S : twin(j) <= n
    <2> SUFFICES ASSUME NEW n \in S PROVE twin(j) <= n
        OBVIOUS
    <2>1. arrayMaps[j] = arrayMaps[n] \/ arrayMaps[j] = reverseString(arrayMaps[n])
        BY <1>1
    <2> QED BY <1>2, <2>1, MapsDiffer, TwinIsFirst
<1>4. twin(j) \in S
    <2>1. j \in 1..20 \/ j \in 21..27
        BY DEF Codes
    <2>2. twin(j) = j \/ reverseString(arrayMaps[twin(j)]) = arrayMaps[j]
        BY <2>1, Twins, TwinsMirror
    <2> QED BY <1>1, <1>2, <2>2
<1>5. S \subseteq Codes /\ S # {} /\ S \subseteq Nat
    BY <1>4 DEF Codes
<1>6. firstOf(S) \in S /\ \A m \in S : firstOf(S) <= m
    BY <1>5, FirstEntry
<1> QED BY <1>3, <1>4, <1>5, <1>6 DEF bothWays

\* What is read is the letter of that entry.
LEMMA TwinIsReadAs == \A j \in Codes : characters[twin(j)] = readAs(characters[j])
<1>1. /\ characters[1] = "A" /\ characters[2] = "B" /\ characters[3] = "C"
      /\ characters[4] = "D" /\ characters[5] = "E" /\ characters[6] = "F"
      /\ characters[7] = "G" /\ characters[8] = "H" /\ characters[9] = "I"
      /\ characters[10] = "J" /\ characters[11] = "K" /\ characters[12] = "L"
      /\ characters[13] = "M" /\ characters[14] = "N" /\ characters[15] = "O"
      /\ characters[16] = "P" /\ characters[17] = "Q" /\ characters[18] = "R"
      /\ characters[19] = "S" /\ characters[20] = "T" /\ characters[21] = "U"
      /\ characters[22] = "V" /\ characters[23] = "W" /\ characters[24] = "X"
      /\ characters[25] = "Y" /\ characters[26] = "Z" /\ characters[27] = "*"
    BY DEF characters
<1> QED BY <1>1, EachCode, Twins DEF readAs

LEMMA Asterisk == \A m \in Codes : characters[m] = "*" <=> m = 27
BY EachCode DEF characters

----------------------------------------------------------------------------
\* What is read

\* An asterisk costs 16 blocks, a letter 20 at most.
LEMMA Costs ==
    ASSUME NEW t, readable(t), NEW n \in 1..(3 * Len(t.letters)),
           NEW j \in Codes, charAt(t, n) = characters[j]
    PROVE  twin(j) \in 1..20 /\ (n % 3 # 2 => twin(j) = 16)
BY Asterisk, StarPlaces, Twins, TwinCode

\* A list of n values and one more.
LEMMA AppendMapped ==
    ASSUME NEW t, NEW n \in Nat, NEW s, s = [k \in 1..n |-> readAs(charAt(t, k))]
    PROVE  Append(s, readAs(charAt(t, n + 1))) = [k \in 1..(n + 1) |-> readAs(charAt(t, k))]
<1> DEFINE T == {readAs(charAt(t, k)) : k \in 1..(n + 1)}
           c(k) == readAs(charAt(t, k))
<1>1. \A k \in 1..(n + 1) : c(k) \in T
    OBVIOUS
<1> HIDE DEF T, c
<1>2. s = [k \in 1..n |-> c(k)]
    BY DEF c
<1>3. s \in Seq(T) /\ Len(s) = n /\ c(n + 1) \in T
    BY <1>1, <1>2
<1>4. Append(s, c(n + 1)) = [k \in 1..(n + 1) |-> c(k)]
    BY <1>2, <1>3
<1> QED BY <1>4 DEF c

\* As long as there is memory the window holds the latest stretches of the track,
\* and after a character begins with the white that follows it.
WindowInv ==
    /\ track \in Tracks /\ edges \in Nat
    /\ ~halted => Holds(window, track, edges) /\ window.index = indexAfter(track, edges)

LEMMA TracksArePrinted == \A t \in Tracks : readable(t)
BY TracksAssumption, PrintAssumption DEF readable, isTrack

\* A window that is not full gets another bar; a full one gets one and is no
\* character, which is so twice after a stray mark; or it is the next character.
LEMMA EdgeReadsTrack ==
    ASSUME WindowInv, ~halted, Edge, NEW n, n = passed(track, edges)
    PROVE  /\ track' = track /\ edges' = edges + 1 /\ n \in Nat
           /\ Holds(window', track, edges') /\ window'.index = indexAfter(track, edges')
           /\ \/ window.index < BARCODE_BUF_SIZE /\ passed(track, edges') = n
              \/ /\ window.index = BARCODE_BUF_SIZE /\ passed(track, edges') = n /\ n = 0
                 /\ window'.match = 0 /\ Len(track.lead) = 3 /\ edges' \in {10, 11}
                 /\ startsWhite(window') <=> edges' = 11
              \/ /\ window.index = BARCODE_BUF_SIZE /\ passed(track, edges') = n + 1
                 /\ n + 1 \in 1..(3 * Len(track.letters))
                 /\ \E j \in Codes :
                       charAt(track, n + 1) = characters[j] /\ window'.match = twin(j)
<1> DEFINE t == track
           next == nextBar(window, stretch(t, edges + 1), colourOf(edges + 2))
<1>1. readable(t) /\ edges \in Nat /\ edges' = edges + 1 /\ edges' <= stretches(t) /\ track' = track
    <2>1. stretches(t) \in Int
        <3>1. Len(t.lead) \in Nat /\ Len(t.letters) \in Nat
            BY TracksAssumption DEF WindowInv, isTrack
        <3> QED BY <3>1 DEF stretches
    <2> QED BY <2>1, TracksArePrinted DEF WindowInv, Edge
<1>2. Holds(window, t, edges) /\ window.index = indexAfter(t, edges)
    BY DEF WindowInv
<1>3. window' = IF window.index < 10 THEN next ELSE decoded_as(next, compareTwoArray(next))
    <2>1. (IF edges % 2 = 0 THEN "black" ELSE "white") = colourOf(edges + 2)
        BY <1>1 DEF colourOf
    <2>2. window' = addBarcode(window, stretch(track, edges + 1), colourOf(edges + 2))
        BY <2>1 DEF Edge
    <2> QED BY <2>2 DEF addBarcode, BARCODE_BUF_SIZE
<1>4. next = nextBar(window, stretch(t, edges'), colourOf(edges + 2))
    BY <1>1
<1> HIDE DEF next, t
<1>5. /\ n \in Nat /\ Holds(next, t, edges') /\ next.match = 0
      /\ \/ window.index < 10 /\ passed(t, edges') = n /\ next.index = indexAfter(t, edges')
         \/ /\ window.index = 10 /\ next.index = 10 /\ indexAfter(t, edges') = 10
            /\ passed(t, edges') = n /\ n = 0 /\ Len(t.lead) = 3 /\ edges' \in {10, 11}
            /\ startsWhite(next) <=> edges' = 11
            /\ edges' = 10 => \A m \in Codes :
                   sortBarType(next) \notin {arrayMaps[m], reverseString(arrayMaps[m])}
         \/ /\ window.index = 10 /\ next.index = 10 /\ indexAfter(t, edges') = 1
            /\ passed(t, edges') = n + 1 /\ n + 1 \in 1..(3 * Len(t.letters))
            /\ ~startsWhite(next) /\ sortBarType(next) = wideAt(t, n + 1)
    BY <1>1, <1>2, <1>4, WindowMoves DEF t
<1>6. CASE window.index < 10 /\ passed(t, edges') = n /\ next.index = indexAfter(t, edges')
    BY <1>1, <1>3, <1>5, <1>6 DEF BARCODE_BUF_SIZE, t
<1>7. CASE /\ window.index = 10 /\ indexAfter(t, edges') = 10 /\ next.index = 10
           /\ passed(t, edges') = n /\ n = 0 /\ Len(t.lead) = 3 /\ edges' \in {10, 11}
           /\ startsWhite(next) <=> edges' = 11
           /\ edges' = 10 => \A m \in Codes :
                  sortBarType(next) \notin {arrayMaps[m], reverseString(arrayMaps[m])}
    <2>1. compareTwoArray(next) = 0
        <3>1. CASE edges' = 10
            <4>1. {m \in Codes :
                      sortBarType(next) \in {arrayMaps[m], reverseString(arrayMaps[m])}} = {}
                BY <1>7, <3>1
            <4> QED BY <4>1 DEF compareTwoArray, firstOf
        <3>2. CASE edges' = 11
            BY <1>7, <3>2 DEF compareTwoArray
        <3> QED BY <1>7, <3>1, <3>2
    <2>2. window' = next
        BY <1>3, <1>7, <2>1 DEF decoded_as
    <2> QED BY <1>1, <1>5, <1>7, <2>2 DEF BARCODE_BUF_SIZE, t
<1>8. CASE /\ window.index = 10 /\ next.index = 10 /\ indexAfter(t, edges') = 1
           /\ passed(t, edges') = n + 1 /\ n + 1 \in 1..(3 * Len(t.letters))
           /\ ~startsWhite(next) /\ sortBarType(next) = wideAt(t, n + 1)
    <2>1. PICK j \in Codes :
              charAt(t, n + 1) = characters[j] /\ mapOf(charAt(t, n + 1)) = arrayMaps[j]
        BY <1>1, <1>8, CharCode
    <2>2. sortBarType(next) \in {arrayMaps[j], reverseString(arrayMaps[j])}
        BY <1>8, <2>1 DEF wideAt
    <2>3. compareTwoArray(next) = twin(j) /\ twin(j) # 0
        <3>1. bothWays(sortBarType(next)) = twin(j)
            BY <2>2, TableFinds
        <3> QED BY <1>8, <3>1, TwinCode DEF compareTwoArray, bothWays
    <2>4. window' = [resetBarcodes(next) EXCEPT !.match = twin(j)]
        BY <1>3, <1>8, <2>3 DEF decoded_as
    <2>5. Holds(window', t, edges') /\ window'.index = 1 /\ window'.match = twin(j)
        <3>1. Holds(next, t, edges') /\ next.index = 10 /\ edges' \in Nat
            BY <1>1, <1>5, <1>8
        <3> QED BY <2>4, <3>1, ResetHolds
    <2> QED BY <1>1, <1>5, <1>8, <2>1, <2>5 DEF BARCODE_BUF_SIZE, t
<1> QED BY <1>5, <1>6, <1>7, <1>8

\* Every other step leaves track and window alone.
LEMMA OthersKeepTrack ==
    ASSUME WindowInv, DecodesTrack, UNCHANGED <<track, edges, window, decoded>>, ~halted' => ~halted
    PROVE  WindowInv' /\ DecodesTrack'
BY DEF WindowInv, DecodesTrack

\* A character that is complete is appended as it is read.
LEMMA EdgeTracks ==
    ASSUME WindowInv, DecodesTrack, ~halted, Edge
    PROVE  WindowInv' /\ DecodesTrack'
<1> DEFINE n == passed(track, edges)
<1>1. /\ track' = track /\ edges' = edges + 1 /\ n \in Nat
      /\ Holds(window', track, edges') /\ window'.index = indexAfter(track, edges')
      /\ \/ window.index < BARCODE_BUF_SIZE /\ passed(track, edges') = n
         \/ /\ window.index = BARCODE_BUF_SIZE /\ passed(track, edges') = n /\ window'.match = 0
         \/ /\ window.index = BARCODE_BUF_SIZE /\ passed(track, edges') = n + 1
            /\ \E j \in Codes : charAt(track, n + 1) = characters[j] /\ window'.match = twin(j)
    BY EdgeReadsTrack
<1>2. WindowInv'
    BY <1>1 DEF WindowInv
<1> HIDE DEF n
<1>3. decoded = [k \in 1..n |-> readAs(charAt(track, k))]
    BY DEF DecodesTrack, n
<1>4. CASE passed(track, edges') = n /\ decoded' = decoded
    BY <1>1, <1>2, <1>3, <1>4 DEF DecodesTrack
<1>5. CASE /\ passed(track, edges') = n + 1 /\ window.index = BARCODE_BUF_SIZE
           /\ \E j \in Codes : charAt(track, n + 1) = characters[j] /\ window'.match = twin(j)
    <2>1. PICK j \in Codes : charAt(track, n + 1) = characters[j] /\ window'.match = twin(j)
        BY <1>5
    <2>2. window'.match # 0 /\ characters[window'.match] = readAs(charAt(track, n + 1))
        BY <2>1, TwinCode, TwinIsReadAs
    <2>3. CASE halted'
        BY <1>2, <2>3 DEF DecodesTrack
    <2>4. CASE ~halted'
        <3>1. decoded' = Append(decoded, readAs(charAt(track, n + 1)))
            <4>1. Read
                BY <1>5 DEF Edge, Fill, BARCODE_BUF_SIZE
            <4>2. ~ (blocksNeeded(window') > free)
                BY <2>4, <4>1, Zenon DEF Read
            <4>3. decoded' = Append(decoded, characters[window'.match])
                BY <2>2, <4>1, <4>2 DEF Read
            <4> QED BY <2>2, <4>3
        <3>2. decoded' = [k \in 1..(n + 1) |-> readAs(charAt(track, k))]
            BY <1>1, <1>3, <3>1, AppendMapped
        <3> QED BY <1>1, <1>2, <1>5, <3>2 DEF DecodesTrack
    <2> QED BY <2>3, <2>4
<1>6. CASE window.index < BARCODE_BUF_SIZE /\ passed(track, edges') = n
    BY <1>2, <1>4, <1>6 DEF Edge, Fill, Read, BARCODE_BUF_SIZE
<1>7. CASE window.index = BARCODE_BUF_SIZE /\ passed(track, edges') = n /\ window'.match = 0
    BY <1>2, <1>4, <1>7 DEF Edge, Fill, Read, BARCODE_BUF_SIZE
<1> QED BY <1>1, <1>5, <1>6, <1>7 DEF n

LEMMA TrackInvariant == SafetySpec => [](WindowInv /\ DecodesTrack)
<1>1. Init => WindowInv /\ DecodesTrack
    <2> SUFFICES ASSUME Init PROVE WindowInv /\ DecodesTrack
        OBVIOUS
    <2>1. track \in Tracks /\ edges = 0 /\ window = initially /\ decoded = <<>>
        BY DEF Init
    <2>2. readable(track)
        BY <2>1, TracksArePrinted
    <2>3. passed(track, 0) = 0 /\ indexAfter(track, 0) = 1
        BY <2>2, NothingPassed
    <2>4. WindowInv
        BY <2>1, <2>3, EmptyHolds DEF WindowInv
    <2>5. DecodesTrack
        BY <2>1, <2>3 DEF DecodesTrack
    <2> QED BY <2>4, <2>5
<1>2. WindowInv /\ DecodesTrack /\ [Next]_vars => (WindowInv /\ DecodesTrack)'
    <2> SUFFICES ASSUME WindowInv, DecodesTrack, [Next]_vars PROVE WindowInv' /\ DecodesTrack'
        OBVIOUS
    <2>1. CASE ~halted /\ Edge
        BY <2>1, EdgeTracks
    <2>2. CASE UNCHANGED vars
        BY <2>2, OthersKeepTrack DEF vars, isrVars
    <2>3. CASE ~halted /\ barcodeLaunch
        BY <2>3, OthersKeepTrack DEF barcodeLaunch, isValidBarcode, send_barcode_data, clearBarcodeRead,
                                     Compare, Store, Copy, xQueueSend, isrVars
    <2>4. CASE ~halted /\ recv_barcode
        BY <2>4, OthersKeepTrack DEF recv_barcode, Receive, set_barcode_data, Write, isrVars
    <2>5. CASE ~halted /\ Request
        BY <2>5, OthersKeepTrack DEF Request
    <2> QED BY <2>1, <2>2, <2>3, <2>4, <2>5 DEF Next
<1> QED BY <1>1, <1>2, PTL DEF SafetySpec

\* barcode_reader.c, addBarcode to compareTwoArray: on every track whose print can
\* be told from narrow to wide, in either direction and after a stray mark, the
\* characters are read in their order, each once, and nothing else is.
THEOREM CharactersInOrder == SafetySpec => []DecodesTrack
BY TrackInvariant, PTL

----------------------------------------------------------------------------
\* What it costs

\* Blocks lost by n characters, and by a stray mark after e changes of colour.
cost(n) == 52 * (n \div 3) + (IF n % 3 = 0 THEN 0 ELSE IF n % 3 = 1 THEN 16 ELSE 36)
strayCost(t, e) == IF Len(t.lead) = 1 \/ e < 10 THEN 0 ELSE IF e = 10 THEN 28 ELSE 29
spent(t, e) == cost(passed(t, e)) + strayCost(t, e)

\* The terms of MemoryPerBarcode.
share(n) == 52 * ((n + 2) \div 3)
strayShare(t) == 29 * ((Len(t.lead) - 1) \div 2)

\* What is missing from the heap is accounted for by characters, a stray mark and
\* requests; until it stops the program has lost no more than these cost.
MemoryInv ==
    /\ free \in Int /\ requests \in Nat
    /\ ~halted => Heap - free <= spent(track, edges) + 16 * requests
    /\ MemoryPerBarcode

\* A character more costs at least what its comparison loses, and the cost stays
\* below the share.
LEMMA CostStep ==
    ASSUME NEW n \in Nat, NEW m, m = n + 1
    PROVE  /\ cost(n) \in Nat /\ cost(m) \in Nat /\ cost(n) <= cost(m)
           /\ share(n) \in Nat /\ share(m) \in Nat /\ share(n) <= share(m)
           /\ cost(n) <= share(n) /\ cost(m) <= share(m)
           /\ \A b \in 1..20 : (m % 3 # 2 => b = 16) => cost(n) + b <= cost(m)
<1>1. PICK q \in Nat, r \in 0..2 : n = 3 * q + r
    <2>1. n = 3 * (n \div 3) + (n % 3) /\ n \div 3 \in Nat /\ n % 3 \in 0..2
        OBVIOUS
    <2> QED BY <2>1
<1>2. n \div 3 = q /\ n % 3 = r
    BY <1>1
<1>3. m \div 3 = (IF r = 2 THEN q + 1 ELSE q) /\ m % 3 = (IF r = 2 THEN 0 ELSE r + 1)
    BY <1>1
<1>4. (n + 2) \div 3 = (IF r = 0 THEN q ELSE q + 1) /\ (m + 2) \div 3 = q + 1
    BY <1>1
<1>5. cost(n) = 52 * q + (IF r = 0 THEN 0 ELSE IF r = 1 THEN 16 ELSE 36)
    BY <1>2 DEF cost
<1>6. cost(m) = IF r = 2 THEN 52 * q + 52 ELSE IF r = 0 THEN 52 * q + 16 ELSE 52 * q + 36
    BY <1>1, <1>3 DEF cost
<1>7. share(n) = (IF r = 0 THEN 52 * q ELSE 52 * q + 52) /\ share(m) = 52 * q + 52
    BY <1>1, <1>4 DEF share
<1> QED BY <1>1, <1>3, <1>5, <1>6, <1>7

LEMMA StrayStep ==
    ASSUME NEW t, readable(t), NEW e \in Nat, NEW x, x = e + 1
    PROVE  /\ strayCost(t, e) \in Nat /\ strayCost(t, x) \in Nat /\ strayShare(t) \in Nat
           /\ strayCost(t, e) <= strayCost(t, x) /\ strayCost(t, x) <= strayShare(t)
<1>1. Len(t.lead) = 1 \/ Len(t.lead) = 3
    BY DEF readable, isTrack, wellPrinted
<1>2. CASE Len(t.lead) = 1
    BY <1>2 DEF strayCost, strayShare
<1>3. CASE Len(t.lead) = 3
    <2>1. strayShare(t) = 29
        BY <1>3 DEF strayShare
    <2>2. strayCost(t, e) = IF e < 10 THEN 0 ELSE IF e = 10 THEN 28 ELSE 29
        BY <1>3 DEF strayCost
    <2>3. strayCost(t, x) = IF x < 10 THEN 0 ELSE IF x = 10 THEN 28 ELSE 29
        BY <1>3 DEF strayCost
    <2> QED BY <2>1, <2>2, <2>3
<1> QED BY <1>1, <1>2, <1>3

\* What an edge takes: a stray mark 28 blocks and 1, an asterisk 16, a letter 20 at
\* most.
LEMMA EdgeTakes ==
    ASSUME WindowInv, ~halted, Edge
    PROVE  /\ track' = track /\ spent(track, edges) \in Nat /\ spent(track, edges') \in Nat
           /\ share(passed(track, edges')) \in Nat /\ strayShare(track) \in Nat
           /\ spent(track, edges') <= share(passed(track, edges')) + strayShare(track)
           /\ spent(track, edges) <= spent(track, edges')
           /\ window.index = BARCODE_BUF_SIZE =>
                 /\ blocksLost(window') \in Nat
                 /\ spent(track, edges) + blocksLost(window') <= spent(track, edges')
<1> DEFINE n == passed(track, edges)
           k == passed(track, edges')
           s == strayCost(track, edges)
           z == strayCost(track, edges')
           m == n + 1
           b == blocksLost(window')
<1>1. /\ track' = track /\ edges' = edges + 1 /\ n \in Nat
      /\ \/ window.index < BARCODE_BUF_SIZE /\ k = n
         \/ /\ window.index = BARCODE_BUF_SIZE /\ k = n
            /\ window'.match = 0 /\ Len(track.lead) = 3 /\ edges' \in {10, 11}
            /\ startsWhite(window') <=> edges' = 11
         \/ /\ window.index = BARCODE_BUF_SIZE /\ k = m
            /\ m \in 1..(3 * Len(track.letters))
            /\ \E j \in Codes : charAt(track, m) = characters[j] /\ window'.match = twin(j)
    BY EdgeReadsTrack
<1>2. readable(track) /\ edges \in Nat
    BY TracksArePrinted DEF WindowInv
<1>3. s \in Nat /\ z \in Nat /\ s <= z /\ strayShare(track) \in Nat /\ z <= strayShare(track)
    BY <1>1, <1>2, StrayStep
<1>4. spent(track, edges) = cost(n) + s /\ spent(track, edges') = cost(k) + z
    BY DEF spent
<1> HIDE DEF m
<1>5. /\ cost(n) \in Nat /\ cost(m) \in Nat /\ cost(n) <= cost(m)
      /\ share(n) \in Nat /\ share(m) \in Nat /\ share(n) <= share(m)
      /\ cost(n) <= share(n) /\ cost(m) <= share(m)
      /\ \A x \in 1..20 : (m % 3 # 2 => x = 16) => cost(n) + x <= cost(m)
    <2>1. m = n + 1
        BY DEF m
    <2> HIDE DEF n
    <2> QED BY <1>1, <2>1, CostStep
<1> DEFINE f == spent(track, edges)
           g == spent(track, edges')
           c == share(k)
           d == strayShare(track)
           u == cost(n)
           v == cost(k)
<1>6. ASSUME v \in Nat, c \in Nat, v <= c, u <= v,
             window.index = BARCODE_BUF_SIZE => b \in Nat /\ u + s + b <= v + z
      PROVE  /\ f \in Nat /\ g \in Nat /\ c \in Nat /\ d \in Nat
             /\ g <= c + d /\ f <= g
             /\ window.index = BARCODE_BUF_SIZE => b \in Nat /\ f + b <= g
    <2>1. u \in Nat
        BY <1>5
    <2> HIDE DEF f, g, c, d, u, v, n, k, s, z, b
    <2>2. f = u + s /\ g = v + z
        BY <1>4 DEF f, g, u, v
    <2>3. s \in Nat /\ z \in Nat /\ s <= z /\ d \in Nat /\ z <= d
        BY <1>3 DEF d
    <2> QED BY <1>6, <2>1, <2>2, <2>3
<1> HIDE DEF n, k, s, z, b
<1>7. CASE window.index < BARCODE_BUF_SIZE /\ k = n
    <2>1. window.index # BARCODE_BUF_SIZE
        BY <1>7 DEF WindowInv, Holds, BARCODE_BUF_SIZE
    <2>2. v = u /\ c = share(n)
        BY <1>7
    <2> QED BY <1>1, <1>5, <1>6, <2>1, <2>2 DEF k, b
<1>8. CASE /\ k = n /\ window'.match = 0 /\ Len(track.lead) = 3 /\ edges' \in {10, 11}
           /\ startsWhite(window') <=> edges' = 11
    <2>1. v = u /\ c = share(n)
        BY <1>8
    <2>2. b \in Nat /\ s + b <= z
        <3>1. CASE edges' = 10
            <4>1. edges = 9
                BY <1>1, <1>2, <3>1
            <4> QED BY <1>8, <3>1, <4>1 DEF blocksLost, strayCost, s, z, b
        <3>2. CASE edges' = 11
            <4>1. edges = 10
                BY <1>1, <1>2, <3>2
            <4> QED BY <1>8, <3>2, <4>1 DEF blocksLost, strayCost, s, z, b
        <3> QED BY <1>8, <3>1, <3>2
    <2>3. u + s + b <= v + z
        <3> HIDE DEF u, v
        <3> QED BY <1>3, <1>5, <2>1, <2>2 DEF u
    <2> QED BY <1>1, <1>5, <1>6, <2>1, <2>2, <2>3 DEF k, b
<1>9. CASE /\ k = m /\ m \in 1..(3 * Len(track.letters))
           /\ \E j \in Codes : charAt(track, m) = characters[j] /\ window'.match = twin(j)
    <2>1. PICK j \in Codes : charAt(track, m) = characters[j] /\ window'.match = twin(j)
        BY <1>9
    <2>2. twin(j) \in 1..20 /\ (m % 3 # 2 => twin(j) = 16)
        BY <1>2, <1>9, <2>1, Costs
    <2>3. b = twin(j) /\ b \in Nat
        BY <2>1, <2>2 DEF blocksLost, b
    <2>4. v = cost(m) /\ c = share(m)
        BY <1>9
    <2>5. u + b <= v
        BY <1>5, <2>2, <2>3, <2>4
    <2>6. u \in Nat /\ v \in Nat
        BY <1>5, <2>4
    <2>7. u + s + b <= v + z
        <3> HIDE DEF u, v
        <3> QED BY <1>3, <2>3, <2>5, <2>6
    <2> QED BY <1>1, <1>5, <1>6, <2>3, <2>4, <2>7 DEF k, b
<1> QED BY <1>1, <1>7, <1>8, <1>9

\* An edge takes no more than its character adds, or stops the program.
LEMMA EdgeRemembers ==
    ASSUME WindowInv, MemoryInv, ~halted, Edge
    PROVE  MemoryInv'
<1> DEFINE f == spent(track, edges)
           g == spent(track, edges')
           c == share(passed(track, edges'))
           d == strayShare(track)
           b == blocksLost(window')
<1>1. /\ track' = track /\ f \in Nat /\ g \in Nat /\ c \in Nat /\ d \in Nat
      /\ g <= c + d /\ f <= g
      /\ window.index = BARCODE_BUF_SIZE => b \in Nat /\ f + b <= g
    BY EdgeTakes
<1>2. Heap \in Nat /\ free \in Int /\ requests \in Nat /\ requests' = requests
      /\ Heap - free <= f + 16 * requests
    BY TracksAssumption DEF MemoryInv, Edge
<1>3. free' = free \/ (free' = free - b /\ window.index = BARCODE_BUF_SIZE)
    BY Zenon DEF Edge, Fill, Read
<1>4. /\ MemoryPerBarcode' <=> Heap - free' <= c + d + 16 * requests
      /\ spent(track', edges') = g
    BY <1>1, <1>2 DEF MemoryPerBarcode, share, strayShare
<1> HIDE DEF f, g, c, d, b
<1>5. free' \in Int /\ Heap - free' <= g + 16 * requests
    BY <1>1, <1>2, <1>3
<1>6. Heap - free' <= c + d + 16 * requests
    <2> DEFINE r == 16 * requests
               x == Heap - free'
    <2>1. r \in Nat /\ x \in Int /\ x <= g + r
        BY <1>2, <1>5
    <2>2. g <= c + d
        BY <1>1
    <2> HIDE DEF r, x
    <2>3. x <= c + d + r
        BY <1>1, <2>1, <2>2
    <2> QED BY <2>3 DEF r, x
<1> QED BY <1>2, <1>4, <1>5, <1>6 DEF MemoryInv

\* All these are numbers.
LEMMA CostsCounted ==
    ASSUME NEW t \in Tracks, NEW e \in Nat
    PROVE  /\ passed(t, e) \in Nat /\ spent(t, e) \in Nat
           /\ share(passed(t, e)) + strayShare(t) \in Nat
<1> DEFINE L == Len(t.lead)
           n == passed(t, e)
<1>1. readable(t)
    BY TracksArePrinted
<1>2. n \in Nat
    <2>1. n = IF e < L THEN 0 ELSE (e - L + 1) \div 10
        BY DEF passed
    <2>2. L = 1 \/ L = 3
        BY <1>1 DEF readable, isTrack, wellPrinted
    <2> HIDE DEF L, n
    <2> QED BY <2>1, <2>2
<1> HIDE DEF n
<1>3. cost(n) \in Nat /\ share(n) \in Nat
    BY <1>2, CostStep
<1>4. strayCost(t, e) \in Nat /\ strayShare(t) \in Nat
    BY <1>1, StrayStep
<1> QED BY <1>2, <1>3, <1>4 DEF spent, n

\* So does a request, of 16 blocks.
LEMMA RequestRemembers ==
    ASSUME WindowInv, MemoryInv, ~halted, Request
    PROVE  MemoryInv'
<1> DEFINE f == spent(track, edges)
           c == share(passed(track, edges)) + strayShare(track)
<1>1. /\ free \in Int /\ requests \in Nat /\ requests' = requests + 1
      /\ Heap - free <= f + 16 * requests
    BY DEF MemoryInv, Request
<1>2. (~halted' /\ free' = free - 16) \/ (halted' /\ free' = free)
    <2>1. 2 * get_maze_text = 16
        BY DEF get_maze_text
    <2> QED BY <2>1, Zenon DEF Request
<1>3. spent(track', edges') = f
    BY DEF Request
<1>4. /\ MemoryPerBarcode <=> Heap - free <= c + 16 * requests
      /\ MemoryPerBarcode' <=> Heap - free' <= c + 16 * requests'
    BY DEF MemoryPerBarcode, share, strayShare, Request
<1>5. Heap - free <= c + 16 * requests
    BY <1>4 DEF MemoryInv
<1>6. Heap \in Nat
    BY TracksAssumption
<1>7. f \in Int /\ c \in Int
    BY CostsCounted DEF WindowInv
<1>8. ASSUME NEW b, b = f \/ b = c, Heap - free <= b + 16 * requests, ~halted' \/ b = c
      PROVE  Heap - free' <= b + 16 * requests'
    <2>1. b \in Int
        BY <1>7, <1>8
    <2> HIDE DEF f, c
    <2> QED BY <1>1, <1>2, <1>6, <1>8, <2>1
<1> HIDE DEF f, c
<1>9. free' \in Int /\ requests' \in Nat
    BY <1>1, <1>2
<1> QED BY <1>1, <1>3, <1>4, <1>5, <1>8, <1>9 DEF MemoryInv

LEMMA MemoryInvariant == SafetySpec => []MemoryInv
<1>1. Init /\ WindowInv => MemoryInv
    <2> SUFFICES ASSUME Init, WindowInv PROVE MemoryInv
        OBVIOUS
    <2> DEFINE f == spent(track, edges)
               c == share(passed(track, edges)) + strayShare(track)
    <2>1. free = Heap /\ requests = 0 /\ Heap \in Nat
        BY TracksAssumption DEF Init
    <2>2. f \in Nat /\ c \in Nat
        BY CostsCounted DEF WindowInv
    <2>3. MemoryPerBarcode <=> Heap - free <= c + 16 * requests
        BY DEF MemoryPerBarcode, share, strayShare
    <2> HIDE DEF f, c
    <2>4. Heap - free <= c + 16 * requests /\ Heap - free <= f + 16 * requests
        BY <2>1, <2>2
    <2> QED BY <2>1, <2>3, <2>4 DEF MemoryInv, f
<1>2. MemoryInv /\ WindowInv /\ [Next]_vars => MemoryInv'
    <2> SUFFICES ASSUME MemoryInv, WindowInv, [Next]_vars PROVE MemoryInv'
        OBVIOUS
    <2>1. CASE ~halted /\ Edge
        BY <2>1, EdgeRemembers
    <2>2. CASE ~halted /\ Request
        BY <2>2, RequestRemembers
    <2>3. CASE UNCHANGED isrVars
        BY <2>3 DEF MemoryInv, MemoryPerBarcode, isrVars
    <2>4. CASE ~halted /\ barcodeLaunch
        BY <2>3, <2>4 DEF barcodeLaunch, isValidBarcode, send_barcode_data, clearBarcodeRead,
                          Compare, Store, Copy, xQueueSend
    <2>5. CASE ~halted /\ recv_barcode
        BY <2>3, <2>5 DEF recv_barcode, Receive, set_barcode_data, Write
    <2> QED BY <2>1, <2>2, <2>3, <2>4, <2>5 DEF Next, vars
<1> QED BY <1>1, <1>2, TrackInvariant, PTL DEF SafetySpec

\* barcode_reader.c, reverseString, and ssi.h, get_maze_text, free nothing: how far
\* the heap lasts, however edges, requests and failing allocations come.
THEOREM HeapLasts == SafetySpec => []MemoryPerBarcode
<1>1. MemoryInv => MemoryPerBarcode
    BY DEF MemoryInv
<1> QED BY <1>1, MemoryInvariant, PTL
====
