---- MODULE BenchProofs ----
(***************************************************************************)
(* What the programs beside the firmware promise, for every number of      *)
(* faults, measurements, edges and values of a sample.                     *)
(***************************************************************************)
EXTENDS Bench, BarWindowProofs, TLAPS

----------------------------------------------------------------------------
\* The temperature link

\* A write request is under way only over a connection that the server sees, and
\* the client has an operation going only while it sees a connection.  Both are
\* needed: the server takes the subscriber's handle from the write request, and
\* the request exists because of the client's third operation.
LinkInv ==
    /\ connections \in Nat
    /\ toServer => sLink # 0
    /\ operation # "none" => cLink # 0
    /\ Link!SubscriberIsConnected

\* The client's side of the link never disturbs what the server sees of it.
LEMMA ClientKeeps ==
    ASSUME LinkInv,
           \/ Link!ClientEvent \/ Link!ClientDisconnected \/ Link!ConnectionFails \/ Link!QueryFails
    PROVE LinkInv'
<1> USE DEF LinkInv, Link!SubscriberIsConnected, Link!clientVars, Link!serverVars, Link!linkVars
<1>1. CASE Link!ClientWorking
    BY <1>1 DEF Link!ClientWorking
<1>2. CASE Link!ConnectionComplete
    <2>1. connections' \in Nat /\ connections' # 0
        BY <1>2 DEF Link!ConnectionComplete
    <2>2. ~le_notification_enabled' /\ ~canSend'
        BY <1>2 DEF Link!ConnectionComplete
    <2>3. sLink' # 0 /\ cLink' # 0
        BY <1>2, <2>1 DEF Link!ConnectionComplete
    <2> QED BY <2>1, <2>2, <2>3
<1>3. CASE \E services \in {{}, {"environmental sensing"}} : Link!AdvertisingReport(services)
    <2> PICK services \in {{}, {"environmental sensing"}} : Link!AdvertisingReport(services)
        BY <1>3
    <2> QED BY DEF Link!AdvertisingReport
<1>4. CASE Link!ServiceQueryComplete
    BY <1>4 DEF Link!ServiceQueryComplete
<1>5. CASE Link!CharacteristicQueryComplete
    BY <1>5 DEF Link!CharacteristicQueryComplete
<1>6. CASE Link!EnableComplete
    BY <1>6 DEF Link!EnableComplete
<1>7. CASE Link!Notification
    BY <1>7 DEF Link!Notification
<1>8. CASE Link!ClientDisconnected
    BY <1>8 DEF Link!ClientDisconnected
<1>9. CASE Link!ConnectionFails
    BY <1>9 DEF Link!ConnectionFails
<1>10. CASE Link!QueryFails
    BY <1>10 DEF Link!QueryFails
<1> QED
    BY <1>1, <1>2, <1>3, <1>4, <1>5, <1>6, <1>7, <1>8, <1>9, <1>10 DEF Link!ClientEvent

\* The server forgets its subscriber with the connection, and learns of one only
\* from a request that came over the connection it has.
LEMMA ServerKeeps ==
    ASSUME LinkInv, Link!ServerEvent \/ Link!ServerDisconnected \/ Link!Blink
    PROVE LinkInv'
<1> USE DEF LinkInv, Link!SubscriberIsConnected, Link!clientVars, Link!serverVars, Link!linkVars
<1>1. CASE Link!ServerWorking
    BY <1>1 DEF Link!ServerWorking
<1>2. CASE Link!att_write_callback
    BY <1>2 DEF Link!att_write_callback
<1>3. CASE Link!CanSendNow
    BY <1>3 DEF Link!CanSendNow
<1>4. CASE Link!Measure
    BY <1>4 DEF Link!Measure
<1>5. CASE Link!ServerDisconnected
    BY <1>5 DEF Link!ServerDisconnected
<1>6. CASE Link!Blink
    BY <1>6 DEF Link!Blink, Link!vars
<1> QED
    BY <1>1, <1>2, <1>3, <1>4, <1>5, <1>6 DEF Link!ServerEvent

LEMMA LinkInvariant == SafetySpec => []LinkInv
<1>1. Init => LinkInv
    BY DEF Init, Link!Init, LinkInv, Link!SubscriberIsConnected
<1>2. LinkInv /\ [Next]_vars => LinkInv'
    <2> SUFFICES ASSUME LinkInv, [Next]_vars PROVE LinkInv'
        OBVIOUS
    <2>1. CASE Link!Next
        BY <2>1, ClientKeeps, ServerKeeps DEF Link!Next, Link!Faults
    <2>2. CASE UNCHANGED linkVars
        BY <2>2 DEF linkVars, LinkInv, Link!SubscriberIsConnected
    <2> QED BY <2>1, <2>2 DEF Next, vars
<1> QED BY <1>1, <1>2, PTL DEF SafetySpec

\* The server (server.c with server_common.c) asks BTstack to notify only a
\* client that is connected and has subscribed in this connection, whatever
\* connections and operations fail and however often the two reconnect.
THEOREM NotifiesOnlyTheConnected == SafetySpec => []SubscriberIsConnected
<1>1. LinkInv => SubscriberIsConnected
    BY DEF LinkInv, SubscriberIsConnected
<1> QED BY <1>1, LinkInvariant, PTL

----------------------------------------------------------------------------
\* The compass

\* A value and the two bytes of it, and the filter: what division does is taken
\* from its definition.
LEMMA Divided ==
    ASSUME NEW n \in Int, NEW d \in Nat \ {0}
    PROVE  /\ n % d \in Int /\ 0 <= n % d /\ n % d < d /\ n \div d \in Int
           /\ n = d * (n \div d) + (n % d)
OBVIOUS

LEMMA FieldBounds ==
    /\ Axes \in Nat
    /\ \A v \in Field : v \in Int /\ -32768 <= v /\ v <= 32767
BY BenchAssumption

LEMMA SignedIs ==
    ASSUME NEW low \in Int, NEW high \in Int, NEW u \in Int, u = low + 256 * high
    PROVE  Heading!signed(low, high) = IF u < 32768 THEN u ELSE u - 65536
BY DEF Heading!signed

\* The low byte of one sample with the high byte of another.
LEMMA Mixed ==
    ASSUME NEW v \in Int, NEW s \in Int, -32768 <= s, s <= 32767,
           NEW m, m = Heading!signed(Heading!register(v, "low"), Heading!register(s, "high"))
    PROVE  m \in Int /\ m - s <= 255 /\ s - m <= 255
<1> DEFINE low == v % 256
<1> DEFINE u == s % 65536
<1> DEFINE q == s \div 65536
<1> DEFINE high == u \div 256
<1> DEFINE rest == u % 256
<1>1. low \in Int /\ 0 <= low /\ low <= 255
    BY Divided
<1>2. u \in Int /\ 0 <= u /\ u < 65536 /\ q \in Int /\ s = 65536 * q + u
    BY Divided
<1>3. high \in Int /\ rest \in Int /\ 0 <= rest /\ rest <= 255 /\ u = 256 * high + rest
    BY <1>2, Divided
<1>4. Heading!register(v, "low") = low /\ Heading!register(s, "high") = high
    BY DEF Heading!register
<1> HIDE DEF u, low, q, high, rest
<1>5. m = IF low + 256 * high < 32768 THEN low + 256 * high ELSE low + 256 * high - 65536
    <2>1. low + 256 * high \in Int
        BY <1>1, <1>3
    <2> QED BY <1>1, <1>3, <1>4, <2>1, SignedIs
<1>6. (q = 0 /\ s = u /\ u < 32768) \/ (q = -1 /\ s = u - 65536 /\ u >= 32768)
    BY <1>2
<1>7. (low + 256 * high < 32768) <=> u < 32768
    BY <1>1, <1>2, <1>3
<1> QED BY <1>1, <1>2, <1>3, <1>5, <1>6, <1>7

LEMMA Filtered ==
    ASSUME NEW m \in Int
    PROVE  LET f == Heading!kalman_filter(m)
           IN  f \in Int /\ 21 * f - 20 * m <= 20 /\ 20 * m - 21 * f <= 20
<1>1. \A n \in Nat : (20 * n) \div 21 \in Int /\ 20 * n - 21 * ((20 * n) \div 21) \in 0..20
    OBVIOUS
<1>2. CASE m >= 0
    BY <1>1, <1>2 DEF Heading!kalman_filter
<1>3. CASE m < 0
    <2>1. -m \in Nat /\ 20 * (-m) = -20 * m
        BY <1>3
    <2>2. (-20 * m) \div 21 \in Int /\ -20 * m - 21 * ((-20 * m) \div 21) \in 0..20
        BY <1>1, <2>1
    <2>3. Heading!kalman_filter(m) = -((-20 * m) \div 21)
        BY <1>3 DEF Heading!kalman_filter
    <2> QED BY <2>2, <2>3
<1> QED BY <1>2, <1>3

\* A value of this pass is off from the sample its high byte was read from by a low
\* byte at most; the bytes read so far are those of samples.
HeadingInv ==
    /\ sample \in [1..Axes -> Field] /\ axis \in 1..(Axes + 1)
    /\ filtered \in [1..Axes -> Int] /\ source \in [1..Axes -> Int]
    /\ unread \subseteq Heading!Halves /\ bytes = [h \in Heading!Halves |-> bytes[h]]
    /\ axis = Axes + 1 => unread = Heading!Halves
    /\ axis <= Axes /\ "low" \notin unread =>
           \E v \in Field : bytes["low"] = Heading!register(v, "low")
    /\ axis <= Axes /\ "high" \notin unread =>
           source[axis] \in Field /\ bytes["high"] = Heading!register(source[axis], "high")
    /\ \A a \in 1..(axis - 1) :
           /\ 21 * filtered[a] - 20 * source[a] <= 20 * 256
           /\ 20 * source[a] - 21 * filtered[a] <= 20 * 256

LEMMA ReadKeeps == ASSUME HeadingInv, NEW h \in Heading!Halves, Heading!read_reg(h) PROVE HeadingInv'
<1> USE DEF HeadingInv
<1>1. /\ axis \in 1..Axes /\ h \in unread /\ unread' = unread \ {h}
      /\ bytes' = [g \in Heading!Halves |-> IF g = h THEN Heading!register(sample[axis], h) ELSE bytes[g]]
      /\ source' = IF h = "high" THEN [source EXCEPT ![axis] = sample[axis]] ELSE source
      /\ UNCHANGED <<sample, axis, filtered>>
    <2>1. axis \in 1..Axes
        BY FieldBounds DEF Heading!read_reg
    <2> QED BY <2>1 DEF Heading!read_reg
<1>2. sample[axis] \in Field /\ sample[axis] \in Int /\ Axes \in Nat /\ axis # Axes + 1
    BY <1>1, FieldBounds
<1>3. source' \in [1..Axes -> Int] /\ \A a \in 1..(axis - 1) : source'[a] = source[a]
    BY <1>1, <1>2
<1>4. h = "low" \/ h = "high"
    BY DEF Heading!Halves
<1>5. CASE h = "low"
    <2>1. /\ source' = source /\ bytes'["low"] = Heading!register(sample[axis], "low")
          /\ bytes'["high"] = bytes["high"]
          /\ "high" \notin unread' => "high" \notin unread
        BY <1>1, <1>5 DEF Heading!Halves
    <2> QED BY <1>1, <1>2, <2>1
<1>6. CASE h = "high"
    <2>1. /\ source'[axis] = sample[axis]
          /\ bytes'["high"] = Heading!register(sample[axis], "high")
          /\ bytes'["low"] = bytes["low"]
          /\ "low" \notin unread' => "low" \notin unread
        BY <1>1, <1>6 DEF Heading!Halves
    <2> QED BY <1>1, <1>2, <1>3, <2>1
<1> QED BY <1>4, <1>5, <1>6

LEMMA CombineKeeps == ASSUME HeadingInv, Heading!Combine PROVE HeadingInv'
<1> USE DEF HeadingInv
<1> DEFINE m == Heading!signed(bytes["low"], bytes["high"])
<1> DEFINE f == Heading!kalman_filter(m)
<1>1. /\ axis \in 1..Axes /\ unread = {} /\ Axes \in Nat
      /\ filtered' = [filtered EXCEPT ![axis] = f]
      /\ axis' = axis + 1 /\ unread' = Heading!Halves
      /\ UNCHANGED <<sample, bytes, source>>
    BY FieldBounds DEF Heading!Combine
<1>2. m \in Int /\ m - source[axis] <= 255 /\ source[axis] - m <= 255 /\ source[axis] \in Int
    <2>1. PICK v \in Field : bytes["low"] = Heading!register(v, "low")
        BY <1>1
    <2>2. source[axis] \in Field /\ bytes["high"] = Heading!register(source[axis], "high")
        BY <1>1
    <2>3. v \in Int /\ source[axis] \in Int /\ -32768 <= source[axis] /\ source[axis] <= 32767
        BY <2>1, <2>2, FieldBounds
    <2>4. m = Heading!signed(Heading!register(v, "low"), Heading!register(source[axis], "high"))
        BY <2>1, <2>2
    <2> HIDE DEF m
    <2> QED BY <2>3, <2>4, Mixed
<1> HIDE DEF m
<1>3. f \in Int /\ 21 * f - 20 * m <= 20 /\ 20 * m - 21 * f <= 20
    BY <1>2, Filtered
<1> HIDE DEF f
<1>4. 21 * f - 20 * source[axis] <= 20 * 256 /\ 20 * source[axis] - 21 * f <= 20 * 256
    <2>1. \A x, y, z \in Int :
              x - y <= 255 /\ y - x <= 255 /\ 21 * z - 20 * x <= 20 /\ 20 * x - 21 * z <= 20
              => 21 * z - 20 * y <= 20 * 256 /\ 20 * y - 21 * z <= 20 * 256
        OBVIOUS
    <2> QED BY <1>2, <1>3, <2>1
<1>5. /\ filtered' \in [1..Axes -> Int] /\ filtered'[axis] = f
      /\ \A a \in 1..(axis - 1) : filtered'[a] = filtered[a]
    BY <1>1, <1>3
<1>6. \A a \in 1..(axis' - 1) : a = axis \/ a \in 1..(axis - 1)
    BY <1>1
<1>7. axis' \in 1..(Axes + 1) /\ "low" \in unread' /\ "high" \in unread'
    BY <1>1 DEF Heading!Halves
<1> QED BY <1>1, <1>4, <1>5, <1>6, <1>7

LEMMA HeadingInvariant == SafetySpec => []HeadingInv
<1>1. Init => HeadingInv
    <2> SUFFICES ASSUME Init PROVE HeadingInv
        OBVIOUS
    <2>1. /\ sample \in [1..Axes -> Field] /\ axis = 1 /\ unread = {"low", "high"}
          /\ bytes = [h \in Heading!Halves |-> 0]
          /\ filtered = [a \in 1..Axes |-> 0] /\ source = [a \in 1..Axes |-> 0]
        BY DEF Init, Heading!Init, Heading!Halves
    <2> QED BY <2>1, FieldBounds DEF HeadingInv, Heading!Halves
<1>2. HeadingInv /\ [Next]_vars => HeadingInv'
    <2> SUFFICES ASSUME HeadingInv, [Next]_vars PROVE HeadingInv'
        OBVIOUS
    <2>1. CASE Heading!Sample
        BY <2>1 DEF Heading!Sample, HeadingInv
    <2>2. CASE Heading!Pass
        <3>1. /\ axis = Axes + 1 /\ axis' = 1 /\ UNCHANGED <<sample, unread, bytes, filtered, source>>
              /\ axis' \in 1..(Axes + 1) /\ unread = {"low", "high"} /\ 1..(axis' - 1) = {}
            BY <2>2, FieldBounds DEF Heading!Pass, HeadingInv, Heading!Halves
        <3> QED BY <3>1, FieldBounds DEF HeadingInv, Heading!Halves
    <2>3. CASE UNCHANGED compassVars
        BY <2>3 DEF compassVars, HeadingInv
    <2> QED BY <2>1, <2>2, <2>3, ReadKeeps, CombineKeeps DEF Next, Heading!Next, vars
<1> QED BY <1>1, <1>2, PTL DEF SafetySpec

\* magnetometer.c, read_raw to kalman_filter: although the two registers of a value
\* may belong to two samples, what comes out is off by no more than a low byte.
THEOREM TornByALowByte == SafetySpec => []OffByALowByte
<1>1. HeadingInv => OffByALowByte
    <2> SUFFICES ASSUME HeadingInv, axis = Axes + 1, NEW a \in 1..Axes
                 PROVE  /\ 21 * filtered[a] - 20 * source[a] <= 20 * 256
                        /\ 21 * filtered[a] - 20 * source[a] >= -(20 * 256)
        BY DEF OffByALowByte, Heading!OffByALowByte
    <2>1. a \in 1..(axis - 1) /\ filtered[a] \in Int /\ source[a] \in Int
        BY FieldBounds DEF HeadingInv
    <2>2. /\ 21 * filtered[a] - 20 * source[a] <= 20 * 256
          /\ 20 * source[a] - 21 * filtered[a] <= 20 * 256
        BY <2>1 DEF HeadingInv
    <2> QED BY <2>1, <2>2
<1> QED BY <1>1, HeadingInvariant, PTL

----------------------------------------------------------------------------
\* The line sensor of driver/irline

\* Unless an edge was ignored, the latest thing on its way from the pin to the
\* colour tells the level of the pin: the latched edges, or the alarm if there are
\* none, or stop_signal if there is neither.
LinesInv ==
    /\ pin \in {"low", "high"} /\ latched \subseteq Lines!Edges /\ lPc \in {"look", "show"}
    /\ latched = {"rise"} => pin = "high"
    /\ latched = {"fall"} => pin = "low"
    /\ latched = {} /\ ~ignored =>
           /\ alarm # {} => ("rise" \in alarm <=> pin = "high")
           /\ alarm = {} => (stop_signal = 0 <=> pin = "high")
    /\ ignored \in BOOLEAN
    /\ lPc = "look" => (sensor = "BLACK" <=> looked = 0)

\* What is shown once nothing is on its way.
SettledColour ==
    program = "lines" /\ latched = {} /\ alarm = {} /\ lPc = "look" /\ looked = stop_signal
        => ignored \/ (sensor = "BLACK" <=> pin = "high")

LEMMA LinesInvariant == SafetySpec => []LinesInv
<1>1. Init => LinesInv
    <2> SUFFICES ASSUME Init PROVE LinesInv
        OBVIOUS
    <2>1. /\ pin \in {"low", "high"} /\ latched = {} /\ alarm = {} /\ stop_signal = 1
          /\ lPc = "look" /\ looked = 1 /\ sensor = "WHITE" /\ ignored = (pin = "high")
        BY DEF Init, Lines!Init
    <2>2. ignored \in BOOLEAN /\ (~ignored => pin # "high")
        BY <2>1
    <2>3. latched # {"rise"} /\ latched # {"fall"} /\ latched \subseteq Lines!Edges
        BY <2>1
    <2>4. sensor # "BLACK" /\ looked # 0 /\ stop_signal # 0
        BY <2>1
    <2> QED BY <2>1, <2>2, <2>3, <2>4 DEF LinesInv
<1>2. LinesInv /\ [Next]_vars => LinesInv'
    <2> SUFFICES ASSUME LinesInv, [Next]_vars PROVE LinesInv'
        OBVIOUS
    <2> USE DEF LinesInv
    <2>1. CASE Lines!Move
        BY <2>1 DEF Lines!Move, Lines!Edges, Lines!task
    <2>2. CASE Lines!gpio_callback
        <3>1. latched = {"rise"} \/ latched = {"fall"} \/ latched = Lines!Edges
            BY <2>2 DEF Lines!gpio_callback, Lines!Edges
        <3> QED BY <2>2, <3>1 DEF Lines!gpio_callback, Lines!Edges, Lines!task
    <2>3. CASE Lines!debounce_callback
        BY <2>3 DEF Lines!debounce_callback, Lines!task
    <2>4. CASE Lines!detectLines
        BY <2>4 DEF Lines!detectLines, Lines!Look, Lines!Show
    <2>5. CASE UNCHANGED lineVars
        BY <2>5 DEF lineVars
    <2> QED BY <2>1, <2>2, <2>3, <2>4, <2>5 DEF Next, Lines!Next, vars
<1> QED BY <1>1, <1>2, PTL DEF SafetySpec

\* ir.c, gpio_callback to detectLines: once no edge, alarm or look is pending, the
\* colour shown is the one under the sensor, unless an edge came while an alarm was
\* running; the two edges that the interrupt takes at once count as a rising one.
THEOREM SettledColourIsRight == SafetySpec => []SettledColour
<1>1. LinesInv => SettledColour
    BY DEF LinesInv, SettledColour
<1> QED BY <1>1, LinesInvariant, PTL

----------------------------------------------------------------------------
\* The barcode reader of driver/irline

\* BarcodeBackup's copies of the operators that the lemmas about the window are
\* stated for.
LEMMA SameOperators ==
    /\ \A w, l, c : Bars!nextBar(w, l, c) = nextBar(w, l, c)
    /\ \A w, m : Bars!decoded_as(w, m) = decoded_as(w, m)
    /\ \A w : Bars!sortBarType(w) = sortBarType(w) /\ Bars!startsWhite(w) = startsWhite(w)
    /\ \A S : Bars!firstOf(S) = firstOf(S)
    /\ Bars!initially = initially
<1> USE Zenon DEF Bars!BARCODE_BUF_SIZE, BARCODE_BUF_SIZE, Bars!bar, bar, Bars!Slots, Slots,
                  Bars!resetBarcodes, resetBarcodes
<1>1. \A w, l, c : Bars!nextBar(w, l, c) = nextBar(w, l, c)
    BY DEF Bars!nextBar, nextBar
<1>2. \A w, m : Bars!decoded_as(w, m) = decoded_as(w, m)
    BY DEF Bars!decoded_as, decoded_as
<1>3. \A w : Bars!sortBarType(w) = sortBarType(w)
    BY DEF Bars!sortBarType, sortBarType, Bars!lengths, lengths, Bars!thick, thick, Bars!total,
           total, Bars!BARCODE_ARR_SIZE, BARCODE_ARR_SIZE, Bars!Positions, Positions
<1>4. \A w : Bars!startsWhite(w) = startsWhite(w)
    BY DEF Bars!startsWhite, startsWhite
<1>5. \A S : Bars!firstOf(S) = firstOf(S)
    BY DEF Bars!firstOf, firstOf
<1>6. Bars!initially = initially
    BY DEF Bars!initially, initially
<1> QED BY <1>1, <1>2, <1>3, <1>4, <1>5, <1>6

LEMMA SameTracks ==
    /\ Bars!arrayMaps = arrayMaps /\ Bars!Codes = Codes /\ Bars!characters = characters
    /\ \A t, j : Bars!stretch(t, j) = stretch(t, j)
    /\ \A t : Bars!stretches(t) = stretches(t)
    /\ \A t \in Tracks : readable(t)
<1> USE Zenon DEF Bars!arrayMaps, arrayMaps, Bars!Codes, Codes, Bars!characters, characters
<1>1. \A t, j : Bars!stretch(t, j) = stretch(t, j)
    BY DEF Bars!stretch, stretch, Bars!wideAt, wideAt, Bars!charAt, charAt, Bars!mapOf, mapOf,
           Bars!reverseString, reverseString
<1>2. \A t : Bars!stretches(t) = stretches(t)
    BY DEF Bars!stretches, stretches
<1>3. \A t \in Tracks : readable(t)
    BY PrintAssumption DEF readable, isTrack, Bars!isTrack, wellPrinted, Bars!wellPrinted,
                           Letters, Bars!Letters
<1> QED BY <1>1, <1>2, <1>3

\* Forward, the window holds the latest stretches, and begins anew after each
\* character.
ReadInv ==
    /\ track \in Tracks /\ edges \in Nat
    /\ Holds(window, track, edges) /\ window.index = indexAfter(track, edges)
    /\ passed(track, edges) \in 0..(3 * Len(track.letters))

\* The characters are read one at a time and as they are printed on the track.
LEMMA EdgeReadsNext ==
    ASSUME ReadInv, ~track.backward, Bars!Edge, NEW n, n = passed(track, edges)
    PROVE  /\ ReadInv' /\ track' = track
           /\ \/ passed(track, edges') = n /\ window'.match = 0
              \/ /\ passed(track, edges') = n + 1 /\ window'.match # 0
                 /\ characters[window'.match] = charAt(track, n + 1)
<1> DEFINE t == track
           next == nextBar(window, stretch(t, edges + 1), colourOf(edges + 2))
<1>1. readable(t) /\ edges \in Nat /\ edges' = edges + 1 /\ edges' <= stretches(t) /\ track' = track
    <2>1. readable(t) /\ edges \in Nat
        BY SameTracks DEF ReadInv
    <2>2. stretches(t) \in Int
        <3>1. Len(t.lead) \in Nat /\ Len(t.letters) \in Nat
            BY <2>1 DEF readable, isTrack
        <3> QED BY <3>1 DEF stretches
    <2> QED BY <2>1, <2>2, SameTracks DEF Bars!Edge
<1>2. Holds(window, t, edges) /\ window.index = indexAfter(t, edges)
    BY DEF ReadInv
<1>3. window' = IF window.index < 10 THEN next ELSE decoded_as(next, Bars!compareTwoArray(next))
    <2>1. (IF edges % 2 = 0 THEN "black" ELSE "white") = colourOf(edges + 2)
        BY <1>1 DEF colourOf
    <2>2. window' = Bars!addBarcode(window, stretch(track, edges + 1), colourOf(edges + 2))
        BY <2>1, SameTracks DEF Bars!Edge
    <2> QED BY <2>2, SameOperators DEF Bars!addBarcode, Bars!BARCODE_BUF_SIZE
<1>4. next = nextBar(window, stretch(t, edges'), colourOf(edges + 2))
    BY <1>1
<1>5. Bars!compareTwoArray(next) =
          IF startsWhite(next) THEN 0 ELSE firstOf({m \in Codes : sortBarType(next) = arrayMaps[m]})
    <2>1. Bars!compareTwoArray(next) =
              IF Bars!startsWhite(next) THEN 0
              ELSE Bars!firstOf({m \in Codes : Bars!sortBarType(next) = arrayMaps[m]})
        BY SameTracks, Zenon DEF Bars!compareTwoArray
    <2> HIDE DEF next
    <2> QED BY <2>1, SameOperators
<1> HIDE DEF next, t
<1>6. /\ n \in Nat /\ Holds(next, t, edges') /\ next.match = 0
      /\ \/ window.index < 10 /\ passed(t, edges') = n /\ next.index = indexAfter(t, edges')
         \/ /\ window.index = 10 /\ next.index = 10 /\ indexAfter(t, edges') = 10
            /\ passed(t, edges') = n /\ n = 0 /\ Len(t.lead) = 3 /\ edges' \in {10, 11}
            /\ startsWhite(next) <=> edges' = 11
            /\ edges' = 10 => \A m \in Codes :
                   sortBarType(next) \notin {arrayMaps[m], reverseString(arrayMaps[m])}
         \/ /\ window.index = 10 /\ next.index = 10 /\ indexAfter(t, edges') = 1
            /\ passed(t, edges') = n + 1 /\ n + 1 \in 1..(3 * Len(t.letters))
            /\ ~startsWhite(next) /\ sortBarType(next) = wideAt(t, n + 1)
    BY <1>1, <1>2, <1>4, WindowMoves DEF t
<1>7. n \in 0..(3 * Len(t.letters))
    BY DEF ReadInv, t
<1>8. CASE window.index < 10 /\ passed(t, edges') = n /\ next.index = indexAfter(t, edges')
    BY <1>1, <1>3, <1>6, <1>7, <1>8 DEF ReadInv, t
<1>9. CASE /\ window.index = 10 /\ next.index = 10 /\ indexAfter(t, edges') = 10
           /\ passed(t, edges') = n /\ edges' \in {10, 11}
           /\ startsWhite(next) <=> edges' = 11
           /\ edges' = 10 => \A m \in Codes :
                  sortBarType(next) \notin {arrayMaps[m], reverseString(arrayMaps[m])}
    <2>1. Bars!compareTwoArray(next) = 0
        <3>1. CASE edges' = 10
            <4>1. {m \in Codes : sortBarType(next) = arrayMaps[m]} = {}
                BY <1>9, <3>1
            <4> QED BY <1>5, <4>1 DEF firstOf
        <3>2. CASE edges' = 11
            BY <1>5, <1>9, <3>2
        <3> QED BY <1>9, <3>1, <3>2
    <2>2. window' = next
        BY <1>3, <1>9, <2>1 DEF decoded_as
    <2> QED BY <1>1, <1>6, <1>7, <1>9, <2>2 DEF ReadInv, t
<1>10. CASE /\ window.index = 10 /\ next.index = 10 /\ indexAfter(t, edges') = 1
            /\ passed(t, edges') = n + 1 /\ n + 1 \in 1..(3 * Len(t.letters))
            /\ ~startsWhite(next) /\ sortBarType(next) = wideAt(t, n + 1)
    <2>1. PICK j \in Codes :
              charAt(t, n + 1) = characters[j] /\ mapOf(charAt(t, n + 1)) = arrayMaps[j]
        BY <1>1, <1>10, CharCode
    <2>2. sortBarType(next) = arrayMaps[j]
        BY <1>10, <2>1 DEF wideAt, t
    <2>3. {m \in Codes : sortBarType(next) = arrayMaps[m]} = {j}
        BY <2>2, MapsDiffer
    <2>4. Bars!compareTwoArray(next) = j /\ j # 0
        <3>1. firstOf({j}) = j
            BY FirstEntry
        <3>2. Bars!compareTwoArray(next) = firstOf({m \in Codes : sortBarType(next) = arrayMaps[m]})
            BY <1>5, <1>10, Zenon
        <3>3. firstOf({m \in Codes : sortBarType(next) = arrayMaps[m]}) = firstOf({j})
            BY <2>3, Zenon
        <3>4. j # 0
            BY DEF Codes
        <3> QED BY <3>1, <3>2, <3>3, <3>4, Zenon
    <2>5. window' = [resetBarcodes(next) EXCEPT !.match = j]
        BY <1>3, <1>10, <2>4 DEF decoded_as
    <2>6. Holds(window', t, edges') /\ window'.index = 1 /\ window'.match = j
        <3>1. Holds(next, t, edges') /\ next.index = 10 /\ edges' \in Nat
            BY <1>1, <1>6, <1>10
        <3> QED BY <2>5, <3>1, ResetHolds
    <2> QED BY <1>1, <1>6, <1>10, <2>1, <2>4, <2>6 DEF ReadInv, t
<1> QED BY <1>6, <1>8, <1>9, <1>10

\* Two asterisks with one character between them belong to one bar code.
LEMMA BetweenStars ==
    ASSUME NEW t, readable(t), ~t.backward, NEW n \in 3..(3 * Len(t.letters)),
           charAt(t, n - 2) = "*", charAt(t, n) = "*"
    PROVE  \E m \in DOMAIN t.letters : charAt(t, n - 1) = t.letters[m]
<1> DEFINE l == Len(t.letters)
<1>1. l \in Nat /\ DOMAIN t.letters = 1..l /\ \A m \in 1..l : t.letters[m] # "*"
    BY DEF readable, isTrack, Letters
<1>2. \A k \in 1..(3 * l) : charAt(t, k) = IF k % 3 = 2 THEN t.letters[(k + 1) \div 3] ELSE "*"
    BY DEF charAt
<1> HIDE DEF l
<1>3. \A k \in 1..(3 * l) : charAt(t, k) = "*" => k % 3 # 2
    <2> TAKE k \in 1..(3 * l)
    <2>1. k % 3 = 2 => (k + 1) \div 3 \in 1..l
        BY <1>1
    <2> QED BY <1>1, <1>2, <2>1
<1>4. n \in 3..(3 * l) /\ n \in Int
    BY DEF l
<1>5. n % 3 # 2 /\ (n - 2) % 3 # 2
    <2>1. n \in 1..(3 * l) /\ n - 2 \in 1..(3 * l)
        BY <1>1, <1>4
    <2> QED BY <1>3, <2>1
<1>6. (n - 1) % 3 = 2 /\ n \div 3 \in 1..l /\ n - 1 \in 1..(3 * l) /\ (n - 1) + 1 = n
    BY <1>1, <1>4, <1>5
<1>7. charAt(t, n - 1) = t.letters[n \div 3]
    BY <1>2, <1>6
<1> QED BY <1>1, <1>6, <1>7

\* A character that is there is the one printed at its place among those met last.
PlaceInv ==
    /\ barcodeRead = [n \in Bars!Bytes |-> barcodeRead[n]]
    /\ \A n \in Bars!Bytes : barcodeRead[n] # Bars!noCharacter =>
           /\ passed(track, edges) >= 3 - n
           /\ barcodeRead[n] = charAt(track, passed(track, edges) - 2 + n)

\* What the task has looked at or taken is still so, unless a character came in
\* between.
LookInv ==
    /\ disturbed \in BOOLEAN /\ barcode = [n \in Bars!Bytes |-> barcode[n]]
    /\ ~disturbed =>
           /\ tPc \in {"last", "middle", "take0", "take1", "take2", "print"} => barcodeRead[0] = "*"
           /\ tPc \in {"middle", "take0", "take1", "take2", "print"} => barcodeRead[2] = "*"
           /\ tPc \in {"take0", "take1", "take2", "print"} => barcodeRead[1] # Bars!noCharacter
           /\ tPc \in {"take1", "take2", "print"} => barcode[0] = barcodeRead[0]
           /\ tPc \in {"take2", "print"} => barcode[1] = barcodeRead[1]
           /\ tPc = "print" => barcode[2] = barcodeRead[2]

\* A text that is on the track.
onTrack(text) ==
    \E m \in DOMAIN track.letters :
        text = [n \in Bars!Bytes |-> IF n = 1 THEN track.letters[m] ELSE "*"]

PrintedInv ==
    /\ IsSequence(printed)
    /\ \A k \in DOMAIN printed : printed[k].whole => onTrack(printed[k].text)

BarsInv == track \in Tracks /\ (~track.backward => ReadInv /\ PlaceInv /\ LookInv /\ PrintedInv)

LEMMA CharacterComes ==
    ASSUME ReadInv, PlaceInv, LookInv, ~track.backward, Bars!Edge
    PROVE  ReadInv' /\ PlaceInv' /\ LookInv'
<1> DEFINE N == passed(track, edges)
<1>1. N \in Nat /\ N = passed(track, edges)
    BY DEF ReadInv
<1> HIDE DEF N
<1>2. /\ ReadInv' /\ track' = track
      /\ \/ passed(track, edges') = N /\ window'.match = 0
         \/ /\ passed(track, edges') = N + 1 /\ window'.match # 0
            /\ characters[window'.match] = charAt(track, N + 1)
    BY <1>1, EdgeReadsNext
<1>3. CASE window'.match = 0
    <2>1. UNCHANGED <<barcodeRead, disturbed, tPc, barcode>>
        BY <1>3 DEF Bars!Edge, Bars!appendToBarcodeRead
    <2>2. passed(track', edges') = passed(track, edges)
        BY <1>1, <1>2, <1>3
    <2> QED BY <1>2, <2>1, <2>2, Zenon DEF PlaceInv, LookInv
<1>4. CASE window'.match # 0
    <2>1. /\ barcodeRead' = [n \in Bars!Bytes |-> IF n = 2 THEN charAt(track, N + 1) ELSE barcodeRead[n + 1]]
          /\ disturbed' = (tPc # "new") /\ UNCHANGED <<tPc, barcode>>
        <3>1. /\ barcodeRead' = [n \in Bars!Bytes |->
                     IF n = 2 THEN Bars!characters[window'.match] ELSE barcodeRead[n + 1]]
              /\ disturbed' = (tPc # "new") /\ UNCHANGED <<tPc, barcode>>
            BY <1>4, Zenon DEF Bars!Edge, Bars!appendToBarcodeRead
        <3>2. Bars!characters[window'.match] = charAt(track, N + 1)
            BY <1>2, <1>4, SameTracks
        <3> QED BY <3>1, <3>2
    <2>2. passed(track', edges') = N + 1 /\ track' = track
        BY <1>2, <1>4
    <2>3. ASSUME NEW n \in Bars!Bytes, barcodeRead'[n] # Bars!noCharacter
          PROVE  N + 1 >= 3 - n /\ barcodeRead'[n] = charAt(track, (N + 1) - 2 + n)
        <3>1. CASE n = 2
            <4>1. barcodeRead'[n] = charAt(track, N + 1) /\ (N + 1) - 2 + n = N + 1
                BY <1>1, <2>1, <3>1
            <4> QED BY <1>1, <3>1, <4>1
        <3>2. CASE n # 2
            <4>1. n + 1 \in Bars!Bytes /\ n \in 0..1 /\ barcodeRead'[n] = barcodeRead[n + 1]
                BY <2>1, <3>2 DEF Bars!Bytes
            <4>2. N >= 3 - (n + 1) /\ barcodeRead[n + 1] = charAt(track, N - 2 + (n + 1))
                BY <1>1, <2>3, <4>1 DEF PlaceInv
            <4>3. N - 2 + (n + 1) = (N + 1) - 2 + n
                BY <1>1, <4>1
            <4> QED BY <1>1, <4>1, <4>2, <4>3
        <3> QED BY <3>1, <3>2
    <2>4. PlaceInv'
        <3>1. barcodeRead' = [n \in Bars!Bytes |-> barcodeRead'[n]]
            BY <2>1
        <3> QED BY <2>2, <2>3, <3>1 DEF PlaceInv
    <2>5. LookInv'
        BY <2>1 DEF LookInv
    <2> QED BY <1>2, <2>4, <2>5
<1> QED BY <1>3, <1>4

\* The task only looks, empties and takes.
LEMMA TaskLooks ==
    ASSUME PlaceInv, LookInv, NEW here, NEW n \in Bars!Bytes, NEW c, NEW same, NEW differs,
           Bars!Compare(here, n, c, same, differs),
           \/ here \in {"new", "begins"} /\ {same, differs} \cap {"last", "middle", "take0", "take1", "take2", "print"} = {}
           \/ here = "first" /\ n = 0 /\ c = "*" /\ same = "last" /\ differs = "new"
           \/ here = "last" /\ n = 2 /\ c = "*" /\ same = "middle" /\ differs = "new"
           \/ here = "middle" /\ n = 1 /\ c = Bars!noCharacter /\ same = "new" /\ differs = "take0"
    PROVE  PlaceInv' /\ LookInv' /\ UNCHANGED <<track, edges, window, printed>>
<1>1. /\ tPc = here /\ tPc' = IF barcodeRead[n] = c THEN same ELSE differs
      /\ UNCHANGED <<track, edges, window, barcodeRead, barcode, printed>>
    BY DEF Bars!Compare, Bars!unread
<1>2. disturbed' \in BOOLEAN /\ (here # "new" => disturbed' = disturbed)
    <2>1. disturbed' = (here # "new" /\ disturbed) /\ disturbed \in BOOLEAN
        BY DEF Bars!Compare, LookInv
    <2> QED BY <2>1
<1>3. PlaceInv'
    BY <1>1 DEF PlaceInv
<1>4. LookInv'
    <2>1. CASE /\ here \in {"new", "begins"}
               /\ {same, differs} \cap {"last", "middle", "take0", "take1", "take2", "print"} = {}
        <3>1. tPc' \notin {"last", "middle", "take0", "take1", "take2", "print"}
            BY <1>1, <2>1
        <3> QED BY <1>1, <1>2, <3>1 DEF LookInv
    <2>2. CASE here = "first" /\ n = 0 /\ c = "*" /\ same = "last" /\ differs = "new"
        BY <1>1, <1>2, <2>2 DEF LookInv
    <2>3. CASE here = "last" /\ n = 2 /\ c = "*" /\ same = "middle" /\ differs = "new"
        BY <1>1, <1>2, <2>3 DEF LookInv
    <2>4. CASE here = "middle" /\ n = 1 /\ c = Bars!noCharacter /\ same = "new" /\ differs = "take0"
        BY <1>1, <1>2, <2>4 DEF LookInv
    <2> QED BY <2>1, <2>2, <2>3, <2>4
<1> QED BY <1>1, <1>3, <1>4

LEMMA TaskClears ==
    ASSUME PlaceInv, LookInv, NEW here, NEW n \in Bars!Bytes, NEW next \in {"clear1", "clear2", "new"},
           Bars!Store(here, n, Bars!noCharacter, next)
    PROVE  PlaceInv' /\ LookInv' /\ UNCHANGED <<track, edges, window, printed>>
<1>1. /\ tPc' = next /\ barcodeRead' = [barcodeRead EXCEPT ![n] = Bars!noCharacter]
      /\ UNCHANGED <<track, edges, window, barcode, disturbed, printed>>
    BY DEF Bars!Store, Bars!unread
<1>2. /\ barcodeRead' = [b \in Bars!Bytes |-> barcodeRead'[b]]
      /\ \A b \in Bars!Bytes : barcodeRead'[b] # Bars!noCharacter => barcodeRead'[b] = barcodeRead[b]
    BY <1>1 DEF PlaceInv
<1>3. PlaceInv'
    <2> SUFFICES ASSUME NEW b \in Bars!Bytes, barcodeRead'[b] # Bars!noCharacter
                 PROVE  /\ passed(track, edges) >= 3 - b
                        /\ barcodeRead'[b] = charAt(track, passed(track, edges) - 2 + b)
        BY <1>1, <1>2 DEF PlaceInv
    <2> QED BY <1>2 DEF PlaceInv
<1>4. LookInv'
    BY <1>1 DEF LookInv
<1> QED BY <1>1, <1>3, <1>4

LEMMA TaskTakes ==
    ASSUME PlaceInv, LookInv, NEW here, NEW n \in Bars!Bytes, NEW next, Bars!Take(here, n, next),
           \/ here = "take0" /\ n = 0 /\ next = "take1"
           \/ here = "take1" /\ n = 1 /\ next = "take2"
           \/ here = "take2" /\ n = 2 /\ next = "print"
    PROVE  PlaceInv' /\ LookInv' /\ UNCHANGED <<track, edges, window, printed>>
<1>1. /\ tPc = here /\ tPc' = next /\ barcode' = [barcode EXCEPT ![n] = barcodeRead[n]]
      /\ UNCHANGED <<track, edges, window, barcodeRead, disturbed, printed>>
    BY DEF Bars!Take, Bars!unread
<1>2. /\ barcode' = [b \in Bars!Bytes |-> barcode'[b]] /\ barcode'[n] = barcodeRead[n]
      /\ \A b \in Bars!Bytes : b # n => barcode'[b] = barcode[b]
    BY <1>1 DEF LookInv
<1>3. PlaceInv'
    BY <1>1 DEF PlaceInv
<1>4. 0 \in Bars!Bytes /\ 1 \in Bars!Bytes /\ 2 \in Bars!Bytes
    BY DEF Bars!Bytes
<1>5. LookInv'
    <2>1. CASE here = "take0" /\ n = 0 /\ next = "take1"
        BY <1>1, <1>2, <1>4, <2>1 DEF LookInv
    <2>2. CASE here = "take1" /\ n = 1 /\ next = "take2"
        BY <1>1, <1>2, <1>4, <2>2 DEF LookInv
    <2>3. CASE here = "take2" /\ n = 2 /\ next = "print"
        BY <1>1, <1>2, <1>4, <2>3 DEF LookInv
    <2> QED BY <2>1, <2>2, <2>3
<1> QED BY <1>1, <1>3, <1>5

LEMMA TaskReports ==
    ASSUME ReadInv, PlaceInv, LookInv, PrintedInv, ~track.backward, Bars!Report
    PROVE  PlaceInv' /\ LookInv' /\ PrintedInv' /\ UNCHANGED <<track, edges, window>>
<1> DEFINE new == [text |-> barcode, whole |-> ~disturbed]
<1>1. /\ tPc = "print" /\ tPc' = "clear0" /\ printed' = Append(printed, new)
      /\ barcode' = Bars!nothing /\ UNCHANGED <<track, edges, window, barcodeRead, disturbed>>
    BY DEF Bars!Report, Bars!unread
<1>2. PlaceInv'
    BY <1>1 DEF PlaceInv
<1>3. LookInv'
    <2>1. barcode' = [b \in Bars!Bytes |-> barcode'[b]]
        BY <1>1 DEF Bars!nothing
    <2> QED BY <1>1, <2>1 DEF LookInv
<1>4. ASSUME ~disturbed PROVE onTrack(barcode)
    <2> DEFINE N == passed(track, edges)
    <2>1. N \in 0..(3 * Len(track.letters)) /\ readable(track) /\ Len(track.letters) \in Nat
        BY SameTracks DEF ReadInv, readable, isTrack
    <2>2. /\ barcodeRead[0] = "*" /\ barcodeRead[2] = "*" /\ barcodeRead[1] # Bars!noCharacter
          /\ barcode[0] = "*" /\ barcode[1] = barcodeRead[1] /\ barcode[2] = "*"
          /\ barcode = [b \in Bars!Bytes |-> barcode[b]]
        BY <1>1, <1>4 DEF LookInv
    <2>3. "*" # Bars!noCharacter /\ 0 \in Bars!Bytes /\ 1 \in Bars!Bytes /\ 2 \in Bars!Bytes
        BY DEF Bars!noCharacter, Bars!Bytes
    <2>4. /\ N >= 3 /\ charAt(track, N - 2 + 0) = "*" /\ charAt(track, N - 2 + 2) = "*"
          /\ barcodeRead[1] = charAt(track, N - 2 + 1)
        BY <2>2, <2>3 DEF PlaceInv
    <2> HIDE DEF N
    <2>5. /\ N - 2 + 0 = N - 2 /\ N - 2 + 2 = N /\ N - 2 + 1 = N - 1
          /\ N \in 3..(3 * Len(track.letters))
        BY <2>1, <2>4
    <2>6. PICK m \in DOMAIN track.letters : charAt(track, N - 1) = track.letters[m]
        BY <2>1, <2>4, <2>5, BetweenStars
    <2>7. \A b \in Bars!Bytes : barcode[b] = IF b = 1 THEN track.letters[m] ELSE "*"
        BY <2>2, <2>4, <2>5, <2>6 DEF Bars!Bytes
    <2>8. barcode = [b \in Bars!Bytes |-> IF b = 1 THEN track.letters[m] ELSE "*"]
        BY <2>2, <2>7, Zenon
    <2> QED BY <2>8, Zenon DEF onTrack
<1>5. PrintedInv'
    <2>1. new.whole => onTrack(new.text)
        BY <1>4
    <2> HIDE DEF new
    <2>2. IsSequence(printed)
        BY DEF PrintedInv
    <2>3. /\ IsSequence(printed') /\ Len(printed') = Len(printed) + 1
          /\ printed'[Len(printed) + 1] = new
          /\ \A k \in DOMAIN printed : printed'[k] = printed[k]
        BY <1>1, <2>2, AppendOne
    <2>4. ASSUME NEW k \in DOMAIN printed', printed'[k].whole PROVE onTrack(printed'[k].text)
        BY <2>1, <2>2, <2>3, <2>4 DEF PrintedInv, IsSequence
    <2>5. track' = track
        BY <1>1
    <2>6. ASSUME NEW k \in DOMAIN printed', printed'[k].whole
          PROVE  \E m \in DOMAIN track'.letters :
                     printed'[k].text =
                         [n \in Bars!Bytes |-> IF n = 1 THEN track'.letters[m] ELSE "*"]
        <3>1. onTrack(printed'[k].text)
            BY <2>4, <2>6
        <3> QED BY <2>5, <3>1, Zenon DEF onTrack
    <2> QED BY <2>3, <2>6, Zenon DEF PrintedInv, onTrack
<1> QED BY <1>1, <1>2, <1>3, <1>5

LEMMA BarsKeep == ASSUME BarsInv, Bars!Next PROVE BarsInv'
<1>1. track' = track
    BY DEF Bars!Next, Bars!Edge, Bars!temp_detect, Bars!isValidBarcode, Bars!Compare,
           Bars!clearBarcodeRead, Bars!Store, Bars!Take, Bars!Report, Bars!unread
<1> SUFFICES ASSUME ~track.backward PROVE ReadInv' /\ PlaceInv' /\ LookInv' /\ PrintedInv'
    BY <1>1 DEF BarsInv
<1>2. ReadInv /\ PlaceInv /\ LookInv /\ PrintedInv /\ track \in Tracks
    BY DEF BarsInv
<1>3. UNCHANGED <<track, edges, window>> => ReadInv'
    BY <1>2 DEF ReadInv
<1>4. UNCHANGED <<track, printed>> => PrintedInv'
    BY <1>2 DEF PrintedInv, onTrack
<1>5. CASE Bars!Edge
    BY <1>1, <1>2, <1>4, <1>5, CharacterComes DEF Bars!Edge
<1>6. 0 \in Bars!Bytes /\ 1 \in Bars!Bytes /\ 2 \in Bars!Bytes
    BY DEF Bars!Bytes
<1>7. CASE Bars!isValidBarcode
    BY <1>2, <1>3, <1>4, <1>6, <1>7, TaskLooks DEF Bars!isValidBarcode
<1>8. CASE Bars!clearBarcodeRead
    BY <1>2, <1>3, <1>4, <1>6, <1>8, TaskClears DEF Bars!clearBarcodeRead
<1>9. CASE \/ Bars!Take("take0", 0, "take1") \/ Bars!Take("take1", 1, "take2")
           \/ Bars!Take("take2", 2, "print")
    BY <1>2, <1>3, <1>4, <1>6, <1>9, TaskTakes
<1>10. CASE Bars!Report
    BY <1>2, <1>3, <1>10, TaskReports
<1> QED BY <1>5, <1>7, <1>8, <1>9, <1>10 DEF Bars!Next, Bars!temp_detect

LEMMA BarsInvariant == SafetySpec => []BarsInv
<1>1. Init => BarsInv
    <2> SUFFICES ASSUME Init PROVE BarsInv
        OBVIOUS
    <2>1. /\ track \in Tracks /\ edges = 0 /\ window = initially /\ printed = <<>>
          /\ barcodeRead = Bars!nothing /\ barcode = Bars!nothing /\ tPc = "new" /\ disturbed = FALSE
        BY SameOperators DEF Init, Bars!Init
    <2>2. ReadInv
        <3>1. readable(track) /\ passed(track, 0) = 0 /\ indexAfter(track, 0) = 1
            BY <2>1, SameTracks, NothingPassed
        <3>2. Holds(initially, track, 0) /\ initially.index = 1
            BY EmptyHolds
        <3>3. Len(track.letters) \in Nat
            BY <3>1 DEF readable, isTrack
        <3> QED BY <2>1, <3>1, <3>2, <3>3 DEF ReadInv
    <2>3. PlaceInv /\ LookInv
        BY <2>1 DEF PlaceInv, LookInv, Bars!nothing
    <2>4. PrintedInv
        BY <2>1 DEF PrintedInv, IsSequence
    <2> QED BY <2>1, <2>2, <2>3, <2>4 DEF BarsInv
<1>2. BarsInv /\ [Next]_vars => BarsInv'
    <2> SUFFICES ASSUME BarsInv, [Next]_vars PROVE BarsInv'
        OBVIOUS
    <2>1. CASE Bars!Next
        BY <2>1, BarsKeep
    <2>2. CASE UNCHANGED barVars
        BY <2>2 DEF barVars, BarsInv, ReadInv, PlaceInv, LookInv, PrintedInv, onTrack
    <2> QED BY <2>1, <2>2 DEF Next, vars
<1> QED BY <1>1, <1>2, PTL DEF SafetySpec

\* barcode_reader_backup.c, isValidBarcode and the printing after it: what the task
\* prints undisturbed is a bar code of the track, wherever on it the bar code is and
\* whatever was read before it, if the track is met forward.
THEOREM PrintsBarcodes == SafetySpec => []PrintsWhatIsThere
<1>1. BarsInv => PrintsWhatIsThere
    BY DEF BarsInv, PrintedInv, onTrack, PrintsWhatIsThere, Bars!PrintsWhatIsThere
<1> QED BY <1>1, BarsInvariant, PTL

====
