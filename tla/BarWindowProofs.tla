---- MODULE BarWindowProofs ----
(***************************************************************************)
(* Lemmas about the table, the window of ten bars and tracks, for every    *)
(* track that can be read: what is in the window after each change of      *)
(* colour, and what it looks like.  Both readers rest on them.             *)
(***************************************************************************)
EXTENDS BarWindow, TLAPS, WellFoundedInduction

----------------------------------------------------------------------------
\* Sequences and entries

\* What Append needs to know of a sequence whose elements do not matter.
IsSequence(s) == s \in Seq({s[n] : n \in 1..Len(s)})

LEMMA AppendOne ==
    ASSUME NEW s, IsSequence(s), NEW e
    PROVE  /\ IsSequence(Append(s, e)) /\ Len(Append(s, e)) = Len(s) + 1 /\ Len(s) \in Nat
           /\ \A n \in 1..Len(s) : Append(s, e)[n] = s[n]
           /\ Append(s, e)[Len(s) + 1] = e
<1> DEFINE S == {s[n] : n \in 1..Len(s)}
<1> DEFINE T == S \cup {e}
<1> DEFINE t == Append(s, e)
<1>1. s \in Seq(T)
    <2>1. s \in Seq(S) BY DEF IsSequence
    <2>2. Len(s) \in Nat /\ s \in [1..Len(s) -> S] BY <2>1
    <2> QED BY <2>2
<1>2. t \in Seq(T) /\ Len(t) = Len(s) + 1 /\ Len(s) \in Nat
    BY <1>1
<1> HIDE DEF t
<1>3. t \in [1..Len(t) -> T]
    BY <1>2
<1>4. t \in [1..Len(t) -> {t[n] : n \in 1..Len(t)}]
    BY <1>3
<1>5. t \in Seq({t[n] : n \in 1..Len(t)})
    BY <1>2, <1>4
<1>6. (\A n \in 1..Len(s) : t[n] = s[n]) /\ t[Len(s) + 1] = e
    BY <1>1 DEF t
<1> QED
    BY <1>2, <1>5, <1>6 DEF IsSequence, t

\* A set of entries of the table has a first one.
LEMMA FirstEntry ==
    ASSUME NEW S, S \subseteq Codes, S # {}
    PROVE  firstOf(S) \in S /\ \A m \in S : firstOf(S) <= m
<1>1. S \subseteq Nat
    BY DEF Codes
<1>2. \E n \in S : \A m \in S : ~ (<<m, n>> \in OpToRel(<, Nat))
    BY <1>1, NatLessThanWellFounded, WFMin
<1>3. \E n \in S : \A m \in S : n <= m
    <2>1. PICK n \in S : \A m \in S : ~ (<<m, n>> \in OpToRel(<, Nat))
        BY <1>2
    <2>2. \A m \in S : ~ (m < n)
        BY <1>1, <2>1, Zenon DEF OpToRel
    <2> QED BY <1>1, <2>2
<1> QED BY <1>3 DEF firstOf

----------------------------------------------------------------------------
\* The table of characters

\* The table, entry by entry, as the provers need it.
LEMMA Maps ==
    /\ arrayMaps[1] = {1,6,9}  /\ arrayMaps[2] = {3,6,9}  /\ arrayMaps[3] = {1,3,6}
    /\ arrayMaps[4] = {5,6,9}  /\ arrayMaps[5] = {1,5,6}  /\ arrayMaps[6] = {3,5,6}
    /\ arrayMaps[7] = {6,7,9}  /\ arrayMaps[8] = {1,6,7}  /\ arrayMaps[9] = {3,6,7}
    /\ arrayMaps[10] = {5,6,7} /\ arrayMaps[11] = {1,8,9} /\ arrayMaps[12] = {3,8,9}
    /\ arrayMaps[13] = {1,3,8} /\ arrayMaps[14] = {5,8,9} /\ arrayMaps[15] = {1,5,8}
    /\ arrayMaps[16] = {3,5,8} /\ arrayMaps[17] = {7,8,9} /\ arrayMaps[18] = {1,7,8}
    /\ arrayMaps[19] = {3,7,8} /\ arrayMaps[20] = {5,7,8} /\ arrayMaps[21] = {1,2,9}
    /\ arrayMaps[22] = {2,3,9} /\ arrayMaps[23] = {1,2,3} /\ arrayMaps[24] = {2,5,9}
    /\ arrayMaps[25] = {1,2,5} /\ arrayMaps[26] = {2,3,5} /\ arrayMaps[27] = {2,5,7}
BY DEF arrayMaps

LEMMA EachCode ==
    \A j \in Codes :
        \/ j = 1 \/ j = 2 \/ j = 3 \/ j = 4 \/ j = 5 \/ j = 6 \/ j = 7 \/ j = 8 \/ j = 9
        \/ j = 10 \/ j = 11 \/ j = 12 \/ j = 13 \/ j = 14 \/ j = 15 \/ j = 16 \/ j = 17 \/ j = 18
        \/ j = 19 \/ j = 20 \/ j = 21 \/ j = 22 \/ j = 23 \/ j = 24 \/ j = 25 \/ j = 26 \/ j = 27
BY DEF Codes

\* The same for the bars of a character.
LEMMA NinePositions ==
    \A p : p \in Positions <=> \/ p = 1 \/ p = 2 \/ p = 3 \/ p = 4 \/ p = 5
                               \/ p = 6 \/ p = 7 \/ p = 8 \/ p = 9
BY DEF Positions

LEMMA MapsArePositions == \A j \in Codes : arrayMaps[j] \subseteq Positions
BY EachCode, Maps DEF Positions

\* A bar is met from the other end at its place from there, and met twice that way
\* it is where it was.
LEMMA BarReversed ==
    \A S \in SUBSET Positions : \A p \in Positions : p \in reverseString(S) <=> 10 - p \in S
BY DEF Positions, reverseString

LEMMA ReversedTwice ==
    \A S \in SUBSET Positions : /\ reverseString(S) \subseteq Positions
                                 /\ reverseString(reverseString(S)) = S
<1> TAKE S \in SUBSET Positions
<1>1. reverseString(S) \subseteq Positions
    BY DEF reverseString, Positions
<1>2. \A p \in Positions : p \in reverseString(reverseString(S)) <=> p \in S
    <2> TAKE p \in Positions
    <2>1. 10 - p \in Positions /\ 10 - (10 - p) = p BY DEF Positions
    <2> QED BY <1>1, <2>1, BarReversed
<1>3. reverseString(reverseString(S)) \subseteq Positions
    <2> DEFINE R == reverseString(S)
    <2>1. R \subseteq Positions BY <1>1
    <2> HIDE DEF R
    <2>2. reverseString(R) \subseteq Positions BY <2>1 DEF reverseString, Positions
    <2> QED BY <2>2 DEF R
<1> QED BY <1>1, <1>2, <1>3

\* No two characters have the same bars.
LEMMA MapsDiffer == \A j, m \in Codes : arrayMaps[j] = arrayMaps[m] => j = m
BY EachCode, Maps

LEMMA BarsReversed ==
    ASSUME NEW j \in Codes
    PROVE  LET S == arrayMaps[j]
               R == reverseString(arrayMaps[j])
           IN  /\ (1 \in R <=> 9 \in S) /\ (2 \in R <=> 8 \in S) /\ (3 \in R <=> 7 \in S)
               /\ (4 \in R <=> 6 \in S) /\ (5 \in R <=> 5 \in S) /\ (6 \in R <=> 4 \in S)
               /\ (7 \in R <=> 3 \in S) /\ (8 \in R <=> 2 \in S) /\ (9 \in R <=> 1 \in S)
BY BarReversed, MapsArePositions DEF Positions

\* The widths of bars of which those in W are wide.  Three are wide, so that the
\* average lies between narrow and wide, by rounding too.
widths(W, T, t) == [p \in Positions |-> IF p \in W THEN T ELSE t]

LEMMA ThreeWide ==
    ASSUME NEW j \in Codes, NEW W, W \in {arrayMaps[j], reverseString(arrayMaps[j])},
           NEW T \in Nat, NEW t \in Nat
    PROVE  total(widths(W, T, t)) = 3 * T + 6 * t
<1> DEFINE f == widths(W, T, t)
<1> DEFINE v(p) == IF p \in W THEN T ELSE t
<1>1. f[1] = v(1) /\ f[2] = v(2) /\ f[3] = v(3) /\ f[4] = v(4) /\ f[5] = v(5)
      /\ f[6] = v(6) /\ f[7] = v(7) /\ f[8] = v(8) /\ f[9] = v(9)
    BY NinePositions DEF widths
<1> HIDE DEF f
<1>2. total(f) = v(1) + v(2) + v(3) + v(4) + v(5) + v(6) + v(7) + v(8) + v(9)
    BY <1>1 DEF total
<1> QED BY <1>2, EachCode, Maps, BarsReversed DEF f

LEMMA WidthsRead ==
    ASSUME NEW j \in Codes, NEW W, W \in {arrayMaps[j], reverseString(arrayMaps[j])},
           NEW T \in Nat, NEW t \in Nat, T >= t + 3
    PROVE  thick(widths(W, T, t)) = W
<1> DEFINE f == widths(W, T, t)
<1> DEFINE a == (3 * T + 6 * t) \div 9
<1>1. \A p \in Positions : f[p] = IF p \in W THEN T ELSE t
    BY DEF widths
<1>2. total(f) = 3 * T + 6 * t
    BY ThreeWide
<1> HIDE DEF f
<1>3. thick(f) = {p \in Positions : f[p] >= a}
    BY <1>2 DEF thick, BARCODE_ARR_SIZE
<1>4. a \in Int /\ t < a /\ a <= T
    OBVIOUS
<1>5. W \subseteq Positions
    BY MapsArePositions, ReversedTwice
<1> HIDE DEF a
<1>6. \A p \in Positions : f[p] >= a <=> p \in W
    BY <1>1, <1>4
<1> QED BY <1>3, <1>5, <1>6 DEF f

----------------------------------------------------------------------------
\* The window

\* The j-th stretch is white or black, and has a length when e changes of colour
\* have ended it.
colourOf(j) == IF j % 2 = 1 THEN "white" ELSE "black"
barAt(t, e, j) == bar(colourOf(j), IF j <= e THEN stretch(t, j) ELSE 0)

\* The window w holds the latest stretches of t after e changes of colour, the one
\* under way in the newest bar.
Holds(w, t, e) ==
    /\ w = [bars |-> w.bars, index |-> w.index, match |-> w.match]
    /\ w.index \in 1..10
    /\ w.bars = [k \in Slots |-> w.bars[k]]
    /\ \A k \in 0..(w.index - 1) : w.bars[k] = barAt(t, e, e + 2 - w.index + k)

LEMMA BarFields ==
    \A c, l : /\ bar(c, l).colour = c /\ bar(c, l).length = l
              /\ \A x : [bar(c, l) EXCEPT !.length = x] = bar(c, x)
BY DEF bar

\* What resetBarcodes leaves of the bars f.
kept(f) == [n \in Slots |-> IF n = 0 THEN f[9] ELSE bar("none", 0)]

LEMMA ResetKeeps ==
    ASSUME NEW w, w = [bars |-> w.bars, index |-> w.index, match |-> w.match]
    PROVE  resetBarcodes(w) = [bars |-> kept(w.bars), index |-> 1, match |-> w.match]
<1> DEFINE g == [n \in Slots |-> IF n = 0 THEN w.bars[BARCODE_BUF_SIZE - 1] ELSE bar("none", 0)]
<1>1. g = kept(w.bars)
    BY DEF kept, BARCODE_BUF_SIZE
<1> HIDE DEF g
<1> DEFINE v == [w EXCEPT !.bars = g]
<1>2. resetBarcodes(w) = [v EXCEPT !.index = 1]
    BY Zenon DEF resetBarcodes, g
<1>3. v = [bars |-> g, index |-> w.index, match |-> w.match]
    OBVIOUS
<1> HIDE DEF v
<1>4. [v EXCEPT !.index = 1] = [bars |-> g, index |-> 1, match |-> w.match]
    BY <1>3
<1> QED BY <1>1, <1>2, <1>4

LEMMA EmptyHolds ==
    ASSUME NEW t
    PROVE  Holds(initially, t, 0) /\ initially.index = 1
<1> DEFINE f == [n \in Slots |-> bar("white", 0)]
<1> DEFINE w == [bars |-> f, index |-> 1, match |-> 0]
<1>1. initially = [bars |-> kept(f), index |-> 1, match |-> 0]
    <2>1. initially = resetBarcodes(w)
        BY DEF initially
    <2>2. w = [bars |-> w.bars, index |-> w.index, match |-> w.match]
          /\ w.bars = f /\ w.match = 0
        OBVIOUS
    <2> HIDE DEF w
    <2> QED BY <2>1, <2>2, ResetKeeps
<1>2. barAt(t, 0, 1) = bar("white", 0)
    BY DEF barAt, colourOf
<1>3. kept(f) = [k \in Slots |-> kept(f)[k]] /\ kept(f)[0] = bar("white", 0)
    BY DEF kept, Slots, BARCODE_BUF_SIZE
<1> HIDE DEF f
<1> QED BY <1>1, <1>2, <1>3 DEF Holds

\* The stretch under way ends and the next one begins.
LEMMA NextHolds ==
    ASSUME NEW t, NEW e \in Nat, NEW w, Holds(w, t, e)
    PROVE  LET n == nextBar(w, stretch(t, e + 1), colourOf(e + 2))
           IN  /\ Holds(n, t, e + 1) /\ n.match = 0
               /\ n.index = IF w.index < 10 THEN w.index + 1 ELSE 10
<1> DEFINE l == stretch(t, e + 1)
           c == colourOf(e + 2)
           n == nextBar(w, l, c)
           i == w.index
           ended == [w.bars EXCEPT ![i - 1].length = l]
<1>1. i \in 1..10 /\ \A k \in 0..(i - 1) : w.bars[k] = barAt(t, e, e + 2 - i + k)
    BY DEF Holds
<1>2. ended = [k \in Slots |-> IF k = i - 1 THEN bar(colourOf(e + 1), l) ELSE w.bars[k]]
    <2>1. w.bars[i - 1] = bar(colourOf(e + 1), 0)
        <3>1. w.bars[i - 1] = barAt(t, e, e + 2 - i + (i - 1))
            BY <1>1
        <3>2. e + 2 - i + (i - 1) = e + 1 /\ ~ (e + 1 <= e)
            BY <1>1
        <3> QED BY <3>1, <3>2 DEF barAt
    <2>2. ended = [w.bars EXCEPT ![i - 1] = [w.bars[i - 1] EXCEPT !.length = l]]
        OBVIOUS
    <2>3. [w.bars[i - 1] EXCEPT !.length = l] = bar(colourOf(e + 1), l)
        BY <2>1, BarFields
    <2>4. w.bars = [k \in Slots |-> w.bars[k]]
        BY DEF Holds
    <2> QED BY <2>2, <2>3, <2>4
<1>3. \A k \in 0..(i - 1) : ended[k] = barAt(t, e + 1, e + 2 - i + k)
    <2> TAKE k \in 0..(i - 1)
    <2>1. k \in Slots /\ k \in Int /\ i \in Int
        BY <1>1 DEF Slots, BARCODE_BUF_SIZE
    <2>2. CASE k = i - 1
        <3>1. e + 2 - i + k = e + 1
            BY <2>1, <2>2
        <3> QED BY <1>2, <2>1, <2>2, <3>1 DEF barAt
    <2>3. CASE k # i - 1
        <3>1. e + 2 - i + k <= e /\ e + 2 - i + k <= e + 1
            BY <2>1, <2>3
        <3> QED BY <1>1, <1>2, <2>1, <2>3, <3>1 DEF barAt
    <2> QED BY <2>2, <2>3
<1>4. barAt(t, e + 1, e + 2) = bar(c, 0)
    BY DEF barAt
<1> HIDE DEF ended, l, c
<1>5. CASE i < 10
    <2> DEFINE b == [ended EXCEPT ![i] = bar(c, 0)]
    <2>1. n = [bars |-> b, index |-> i + 1, match |-> 0]
        BY <1>5 DEF nextBar, BARCODE_BUF_SIZE, ended
    <2>2. b = [k \in Slots |-> IF k = i THEN bar(c, 0) ELSE ended[k]]
        BY <1>2
    <2> HIDE DEF b, n
    <2>3. \A k \in 0..i : b[k] = barAt(t, e + 1, (e + 1) + 2 - (i + 1) + k)
        <3> TAKE k \in 0..i
        <3>1. k \in Slots /\ (e + 1) + 2 - (i + 1) + k = e + 2 - i + k
            BY <1>1, <1>5 DEF Slots, BARCODE_BUF_SIZE
        <3>2. CASE k = i
            <4>1. e + 2 - i + k = e + 2 BY <1>1, <3>2
            <4> QED BY <1>4, <2>2, <3>1, <3>2, <4>1
        <3>3. CASE k # i
            <4>1. k \in 0..(i - 1) BY <1>1, <3>3
            <4> QED BY <1>3, <2>2, <3>1, <3>3, <4>1
        <3> QED BY <3>2, <3>3
    <2>4. i + 1 \in 1..10 /\ (i + 1) - 1 = i
        BY <1>1, <1>5
    <2>5. b = [k \in Slots |-> b[k]]
        BY <2>2
    <2>6. n.bars = b /\ n.index = i + 1 /\ n.match = 0
        BY <2>1
    <2>7. Holds(n, t, e + 1)
        BY <2>1, <2>3, <2>4, <2>5, <2>6 DEF Holds
    <2> QED BY <1>5, <2>6, <2>7 DEF n, l, c
<1>6. CASE i = 10
    <2> DEFINE b == [k \in Slots |-> IF k + 1 \in Slots THEN ended[k + 1] ELSE bar(c, 0)]
    <2>1. n = [bars |-> b, index |-> 10, match |-> 0]
        BY <1>6 DEF nextBar, BARCODE_BUF_SIZE, ended
    <2>2. /\ b = [k \in Slots |-> b[k]]
          /\ \A k \in Slots : b[k] = IF k + 1 \in Slots THEN ended[k + 1] ELSE bar(c, 0)
        OBVIOUS
    <2> HIDE DEF b, n
    <2>3. \A k \in 0..9 : b[k] = barAt(t, e + 1, (e + 1) + 2 - 10 + k)
        <3> TAKE k \in 0..9
        <3>1. k \in Slots /\ (k + 1 \in Slots <=> k # 9)
            BY DEF Slots, BARCODE_BUF_SIZE
        <3>2. CASE k = 9
            <4>1. (e + 1) + 2 - 10 + k = e + 2 BY <3>2
            <4> QED BY <1>4, <2>2, <3>1, <3>2, <4>1
        <3>3. CASE k # 9
            <4>1. k + 1 \in 0..(i - 1) /\ e + 2 - i + (k + 1) = (e + 1) + 2 - 10 + k
                BY <1>6, <3>3
            <4> QED BY <1>3, <2>2, <3>1, <3>3, <4>1
        <3> QED BY <3>2, <3>3
    <2>4. n.bars = b /\ n.index = 10 /\ n.match = 0
        BY <2>1
    <2>5. Holds(n, t, e + 1)
        BY <2>1, <2>2, <2>3, <2>4 DEF Holds
    <2> QED BY <1>6, <2>4, <2>5 DEF n, l, c
<1> QED BY <1>1, <1>5, <1>6

\* What is kept when a character has been read.
LEMMA ResetHolds ==
    ASSUME NEW t, NEW e \in Nat, NEW w, Holds(w, t, e), w.index = 10, NEW m
    PROVE  LET r == [resetBarcodes(w) EXCEPT !.match = m]
           IN  Holds(r, t, e) /\ r.index = 1 /\ r.match = m
<1> DEFINE b == kept(w.bars)
           r == [resetBarcodes(w) EXCEPT !.match = m]
<1>1. r = [bars |-> b, index |-> 1, match |-> m]
    <2>1. w = [bars |-> w.bars, index |-> w.index, match |-> w.match]
        BY DEF Holds
    <2>2. resetBarcodes(w) = [bars |-> b, index |-> 1, match |-> w.match]
        BY <2>1, ResetKeeps
    <2> QED BY <2>2
<1>2. b = [k \in Slots |-> b[k]] /\ b[0] = w.bars[9]
    BY DEF kept, Slots, BARCODE_BUF_SIZE
<1>3. w.bars[9] = barAt(t, e, e + 2 - 10 + 9) /\ e + 2 - 10 + 9 = e + 2 - 1 + 0
    BY DEF Holds
<1> HIDE DEF b, r
<1>4. r.bars = b /\ r.index = 1 /\ r.match = m
    BY <1>1
<1>5. Holds(r, t, e)
    BY <1>1, <1>2, <1>3, <1>4 DEF Holds
<1> QED BY <1>4, <1>5 DEF r
----------------------------------------------------------------------------
\* The characters of a track

\* A track as the constants promise it.
readable(t) == isTrack(t) /\ wellPrinted(t)

\* What the car meets is in the table.
LEMMA CharCode ==
    ASSUME NEW t, readable(t), NEW n \in 1..(3 * Len(t.letters))
    PROVE  \E j \in Codes : charAt(t, n) = characters[j] /\ mapOf(charAt(t, n)) = arrayMaps[j]
<1> DEFINE l == Len(t.letters)
           k == IF t.backward THEN 3 * l + 1 - n ELSE n
           c == charAt(t, n)
<1>1. l \in Nat /\ \A m \in 1..l : t.letters[m] \in Letters
    BY DEF readable, isTrack
<1>2. k \in 1..(3 * l) /\ k \in Int
    BY <1>1
<1>3. c = IF k % 3 = 2 THEN t.letters[(k + 1) \div 3] ELSE "*"
    BY DEF charAt
<1> HIDE DEF k, l
<1>4. k % 3 = 2 => (k + 1) \div 3 \in 1..l
    BY <1>1, <1>2
<1> USE DEF l
<1>5. \E m \in Codes : characters[m] = c
    <2>1. characters[27] = "*" /\ 27 \in Codes
        BY DEF characters, Codes
    <2>2. c = "*" \/ c \in Letters
        BY <1>1, <1>3, <1>4
    <2> QED BY <2>1, <2>2 DEF Letters
<1> DEFINE j == CHOOSE m \in Codes : characters[m] = c
<1> HIDE DEF c
<1>6. j \in Codes /\ characters[j] = c
    BY <1>5
<1>7. mapOf(c) = arrayMaps[j]
    BY DEF mapOf
<1> QED BY <1>6, <1>7 DEF c

\* Whichever way it is met, a bar code begins with an asterisk.
LEMMA StarFirst ==
    ASSUME NEW t, readable(t), Len(t.letters) >= 1
    PROVE  /\ charAt(t, 1) = "*"
           /\ wideAt(t, 1) = {2, 5, 7} \/ wideAt(t, 1) = {3, 5, 8}
<1>1. Len(t.letters) \in Nat
    BY DEF readable, isTrack
<1> DEFINE k == IF t.backward THEN 3 * Len(t.letters) + 1 - 1 ELSE 1
<1>2. charAt(t, 1) = "*"
    <2>1. k % 3 # 2
        <3>1. t.backward => k = 3 * Len(t.letters)
            BY <1>1
        <3>2. ~t.backward => k = 1
            OBVIOUS
        <3> HIDE DEF k
        <3> QED BY <1>1, <3>1, <3>2
    <2>2. charAt(t, 1) = IF k % 3 = 2 THEN t.letters[(k + 1) \div 3] ELSE "*"
        BY DEF charAt
    <2> HIDE DEF k
    <2> QED BY <2>1, <2>2
<1>3. mapOf("*") = arrayMaps[27]
    <2>1. \A m \in Codes : characters[m] = "*" <=> m = 27
        BY EachCode DEF characters
    <2>2. 27 \in Codes
        BY DEF Codes
    <2> QED BY <2>1, <2>2 DEF mapOf
<1>4. arrayMaps[27] = {2, 5, 7} /\ reverseString({2, 5, 7}) = {3, 5, 8}
    <2>1. reverseString({2, 5, 7}) = {3, 5, 8}
        BY DEF reverseString
    <2> QED BY <2>1, Maps
<1> QED BY <1>2, <1>3, <1>4 DEF wideAt

\* The bars of the n-th character.
LEMMA CharStretch ==
    ASSUME NEW t, readable(t), NEW n \in Nat, n >= 1, NEW p \in Positions
    PROVE  stretch(t, Len(t.lead) + 10 * (n - 1) + p) =
               IF p \in wideAt(t, n) THEN t.thick ELSE t.thin
<1> DEFINE L == Len(t.lead)
           j == L + 10 * (n - 1) + p
           i == j - L
<1>1. L \in Nat
    BY DEF readable, isTrack
<1>2. stretch(t, j) = IF i <= 0 THEN t.lead[j]
                      ELSE IF i - 10 * ((i + 9) \div 10 - 1) = 10
                           THEN IF ((i + 9) \div 10) % 3 = 0 THEN t.quiet ELSE t.thin
                           ELSE IF i - 10 * ((i + 9) \div 10 - 1) \in wideAt(t, (i + 9) \div 10)
                                THEN t.thick ELSE t.thin
    BY DEF stretch
<1> HIDE DEF L
<1>3. i = 10 * (n - 1) + p /\ i > 0 /\ i \in Int /\ p \in 1..9
    BY <1>1 DEF Positions
<1> HIDE DEF i
<1>4. (i + 9) \div 10 = n
    BY <1>3
<1>5. i - 10 * (n - 1) = p /\ p # 10 /\ ~ (i <= 0)
    BY <1>3
<1> QED BY <1>2, <1>4, <1>5 DEF L

\* A window that has just become a whole character.
LEMMA FullWindow ==
    ASSUME NEW t, readable(t), NEW n \in Nat, n >= 1, NEW w,
           Holds(w, t, Len(t.lead) + 10 * n - 1), w.index = 10
    PROVE  lengths(w) = widths(wideAt(t, n), t.thick, t.thin) /\ ~startsWhite(w)
<1> DEFINE L == Len(t.lead)
           e == L + 10 * n - 1
<1>1. L = 1 \/ L = 3
    BY DEF readable, isTrack, wellPrinted
<1>2. \A k \in 0..9 : w.bars[k] = barAt(t, e, e + 2 - 10 + k)
    <2>1. \A k \in 0..(w.index - 1) : w.bars[k] = barAt(t, e, e + 2 - w.index + k)
        BY DEF Holds
    <2>2. 10 - 1 = 9
        OBVIOUS
    <2> HIDE DEF e
    <2> QED BY <2>1, <2>2
<1>3. \A p \in Positions :
          stretch(t, L + 10 * (n - 1) + p) = IF p \in wideAt(t, n) THEN t.thick ELSE t.thin
    BY CharStretch
<1> HIDE DEF L
<1>4. \A p \in Positions : w.bars[p - 1].length = IF p \in wideAt(t, n) THEN t.thick ELSE t.thin
    <2> TAKE p \in Positions
    <2>1. p - 1 \in 0..9 /\ e + 2 - 10 + (p - 1) = L + 10 * (n - 1) + p /\ L + 10 * (n - 1) + p <= e
        BY <1>1 DEF Positions
    <2>2. w.bars[p - 1] = barAt(t, e, L + 10 * (n - 1) + p)
        BY <1>2, <2>1
    <2> HIDE DEF e
    <2>3. w.bars[p - 1].length = stretch(t, L + 10 * (n - 1) + p)
        BY <2>1, <2>2, BarFields DEF barAt
    <2> QED BY <1>3, <2>3
<1>5. w.bars[0].colour = "black"
    <2>1. (e + 2 - 10 + 0) % 2 # 1
        BY <1>1
    <2>2. w.bars[0] = barAt(t, e, e + 2 - 10 + 0)
        BY <1>2
    <2> HIDE DEF e
    <2> QED BY <2>1, <2>2, BarFields DEF barAt, colourOf
<1> QED BY <1>4, <1>5 DEF lengths, widths, startsWhite

\* What its widths say.
LEMMA CharacterFound ==
    ASSUME NEW t, readable(t), NEW n \in 1..(3 * Len(t.letters)), NEW w,
           Holds(w, t, Len(t.lead) + 10 * n - 1), w.index = 10
    PROVE  ~startsWhite(w) /\ sortBarType(w) = wideAt(t, n)
<1>1. PICK j \in Codes : charAt(t, n) = characters[j] /\ mapOf(charAt(t, n)) = arrayMaps[j]
    BY CharCode
<1> DEFINE W == wideAt(t, n)
<1>2. W \in {arrayMaps[j], reverseString(arrayMaps[j])}
    BY <1>1 DEF wideAt
<1>3. n \in Nat /\ n >= 1 /\ t.thick \in Nat /\ t.thin \in Nat /\ t.thick >= t.thin + 3
    BY DEF readable, isTrack, wellPrinted
<1>4. lengths(w) = widths(W, t.thick, t.thin) /\ ~startsWhite(w)
    BY <1>3, FullWindow
<1> HIDE DEF W
<1>5. sortBarType(w) = W
    BY <1>2, <1>3, <1>4, WidthsRead DEF sortBarType
<1> QED BY <1>4, <1>5 DEF W

\* Every character has a wide bar after its first two.
LEMMA BeyondTwo ==
    \A m \in Codes : (\E p \in arrayMaps[m] : p > 2) /\ \E p \in reverseString(arrayMaps[m]) : p > 2
<1> TAKE m \in Codes
<1>1. \E p \in {3, 5, 6, 7, 8, 9} : p \in arrayMaps[m]
    <2>1. \/ 3 \in arrayMaps[m] \/ 5 \in arrayMaps[m] \/ 6 \in arrayMaps[m]
          \/ 7 \in arrayMaps[m] \/ 8 \in arrayMaps[m] \/ 9 \in arrayMaps[m]
        BY EachCode, Maps
    <2> QED BY <2>1
<1>2. \E p \in {1, 2, 3, 5, 6, 7} : p \in arrayMaps[m]
    <2>1. \/ 1 \in arrayMaps[m] \/ 2 \in arrayMaps[m] \/ 3 \in arrayMaps[m]
          \/ 5 \in arrayMaps[m] \/ 6 \in arrayMaps[m] \/ 7 \in arrayMaps[m]
        BY EachCode, Maps
    <2> QED BY <2>1
<1>3. \E p \in {1, 2, 3, 5, 6, 7} : 10 - p \in reverseString(arrayMaps[m]) /\ 10 - p > 2
    BY <1>2 DEF reverseString
<1> QED BY <1>1, <1>3

\* A full window that holds the stray mark, the white after it and seven bars of
\* the first character: none of these is as long as the average.
LEMMA StrayIgnored ==
    ASSUME NEW t, readable(t), Len(t.lead) = 3, Len(t.letters) >= 1, NEW w,
           Holds(w, t, 10), w.index = 10
    PROVE  /\ ~startsWhite(w)
           /\ \A m \in Codes : sortBarType(w) \notin {arrayMaps[m], reverseString(arrayMaps[m])}
<1> DEFINE f == lengths(w)
           W == wideAt(t, 1)
           T == t.thick
           h == t.thin
           v(q) == IF q \in W THEN T ELSE h
           a == total(f) \div 9
<1>1. T \in Nat /\ h \in Nat /\ T >= h + 3 /\ t.lead[2] \in Nat /\ t.lead[3] \in Nat
      /\ t.lead[2] + t.lead[3] + 5 * h >= 7 * T + 9
    <2>1. t.lead \in Seq(Nat)
        BY DEF readable, isTrack
    <2>2. t.lead[2] \in Nat /\ t.lead[3] \in Nat
        BY <2>1
    <2> QED BY <2>2 DEF readable, isTrack, wellPrinted
<1>2. \A p \in Positions : w.bars[p - 1] = barAt(t, 10, p + 1)
    <2>1. \A k \in 0..(w.index - 1) : w.bars[k] = barAt(t, 10, 10 + 2 - w.index + k)
        BY DEF Holds
    <2> TAKE p \in Positions
    <2>2. p - 1 \in 0..(10 - 1) /\ 10 + 2 - 10 + (p - 1) = p + 1
        BY DEF Positions
    <2> QED BY <2>1, <2>2
<1>3. \A p \in Positions : f[p] = stretch(t, p + 1)
    <2> TAKE p \in Positions
    <2>1. p + 1 <= 10
        BY DEF Positions
    <2> QED BY <1>2, <2>1, BarFields DEF barAt, lengths
<1>4. \A q \in Positions : stretch(t, 3 + q) = v(q)
    <2> TAKE q \in Positions
    <2>1. 3 + 10 * (1 - 1) + q = 3 + q
        BY DEF Positions
    <2>2. \A n \in Nat : n >= 1 =>
              stretch(t, Len(t.lead) + 10 * (n - 1) + q) = IF q \in wideAt(t, n) THEN T ELSE h
        BY CharStretch
    <2>3. stretch(t, Len(t.lead) + 10 * (1 - 1) + q) = v(q)
        BY <2>2
    <2> QED BY <2>1, <2>3
<1>5. stretch(t, 2) = t.lead[2] /\ stretch(t, 3) = t.lead[3]
    BY DEF stretch
<1>6. ~startsWhite(w)
    <2>1. w.bars[0] = barAt(t, 10, 2)
        <3>1. 1 \in Positions /\ 1 - 1 = 0 /\ 1 + 1 = 2
            BY DEF Positions
        <3> QED BY <1>2, <3>1
    <2>2. 2 % 2 # 1
        OBVIOUS
    <2> QED BY <2>1, <2>2, BarFields DEF barAt, colourOf, startsWhite
<1> HIDE DEF f, T, h
<1>7. f[1] = t.lead[2] /\ f[2] = t.lead[3] /\ f[3] = v(1) /\ f[4] = v(2) /\ f[5] = v(3)
      /\ f[6] = v(4) /\ f[7] = v(5) /\ f[8] = v(6) /\ f[9] = v(7)
    <2>1. f[1] = stretch(t, 2) /\ f[2] = stretch(t, 3) /\ f[3] = stretch(t, 3 + 1)
          /\ f[4] = stretch(t, 3 + 2) /\ f[5] = stretch(t, 3 + 3) /\ f[6] = stretch(t, 3 + 4)
          /\ f[7] = stretch(t, 3 + 5) /\ f[8] = stretch(t, 3 + 6) /\ f[9] = stretch(t, 3 + 7)
        BY <1>3, NinePositions
    <2> HIDE DEF v
    <2> QED BY <1>4, <1>5, <2>1, NinePositions
<1>8. W = {2, 5, 7} \/ W = {3, 5, 8}
    BY StarFirst
<1> HIDE DEF W
<1>9. v(1) + v(2) + v(3) + v(4) + v(5) + v(6) + v(7) >= 2 * T + 5 * h
    BY <1>1, <1>8
<1>10. \A q \in Positions : v(q) \in Nat /\ v(q) <= T
    BY <1>1
<1>11. total(f) = t.lead[2] + t.lead[3] + v(1) + v(2) + v(3) + v(4) + v(5) + v(6) + v(7)
    BY <1>7 DEF total
<1>12. total(f) \in Nat /\ total(f) >= 9 * T + 9
    <2>1. \A q \in Positions : v(q) \in Nat
        BY <1>10
    <2> HIDE DEF v
    <2>2. v(1) \in Nat /\ v(2) \in Nat /\ v(3) \in Nat /\ v(4) \in Nat /\ v(5) \in Nat
          /\ v(6) \in Nat /\ v(7) \in Nat
        BY <2>1, NinePositions
    <2> DEFINE x == t.lead[2]
               y == t.lead[3]
               y1 == v(1) y2 == v(2) y3 == v(3) y4 == v(4) y5 == v(5) y6 == v(6) y7 == v(7)
    <2>3. total(f) = x + y + y1 + y2 + y3 + y4 + y5 + y6 + y7
        BY <1>11
    <2>4. y1 + y2 + y3 + y4 + y5 + y6 + y7 >= 2 * T + 5 * h
        BY <1>9
    <2>5. /\ y1 \in Nat /\ y2 \in Nat /\ y3 \in Nat /\ y4 \in Nat /\ y5 \in Nat /\ y6 \in Nat
          /\ y7 \in Nat
        BY <2>2
    <2>6. x \in Nat /\ y \in Nat /\ x + y + 5 * h >= 7 * T + 9 /\ T \in Nat /\ h \in Nat
        BY <1>1
    <2> HIDE DEF x, y, y1, y2, y3, y4, y5, y6, y7
    <2> QED BY <2>3, <2>4, <2>5, <2>6
<1>13. a \in Nat /\ a >= T + 1
    BY <1>1, <1>12
<1>14. \A p \in sortBarType(w) : p \in Positions /\ f[p] >= a
    BY DEF sortBarType, thick, BARCODE_ARR_SIZE, f
<1> HIDE DEF a
<1>15. \A p \in sortBarType(w) : p = 1 \/ p = 2
    <2> SUFFICES ASSUME NEW p \in sortBarType(w), p # 1, p # 2 PROVE FALSE
        OBVIOUS
    <2>1. \E q \in Positions : f[p] = v(q)
        <3> HIDE DEF v
        <3> QED BY <1>7, <1>14, NinePositions
    <2>2. f[p] <= T /\ f[p] \in Nat /\ f[p] >= a
        BY <1>10, <1>14, <2>1
    <2> QED BY <1>1, <1>13, <2>2
<1>16. \A m \in Codes : (\E p \in arrayMaps[m] : p > 2) /\ \E p \in reverseString(arrayMaps[m]) : p > 2
    BY BeyondTwo
<1>17. \A m \in Codes : sortBarType(w) \notin {arrayMaps[m], reverseString(arrayMaps[m])}
    <2> SUFFICES ASSUME NEW m \in Codes,
                        \/ sortBarType(w) = arrayMaps[m]
                        \/ sortBarType(w) = reverseString(arrayMaps[m])
                 PROVE  FALSE
        OBVIOUS
    <2> QED BY <1>15, <1>16
<1> QED BY <1>6, <1>17

\* The next one begins with white.
LEMMA WhiteAfterStray ==
    ASSUME NEW t, NEW w, Holds(w, t, 11), w.index = 10
    PROVE  startsWhite(w)
<1>1. w.bars[0] = barAt(t, 11, 11 + 2 - 10 + 0)
    BY DEF Holds
<1>2. (11 + 2 - 10 + 0) % 2 = 1
    OBVIOUS
<1> QED BY <1>1, <1>2, BarFields DEF barAt, colourOf, startsWhite

\* Of three characters the second is the letter, whichever way they are met.
LEMMA StarPlaces ==
    ASSUME NEW t, readable(t), NEW n \in 1..(3 * Len(t.letters)), n % 3 # 2
    PROVE  charAt(t, n) = "*"
<1> DEFINE l == Len(t.letters)
           k == IF t.backward THEN 3 * l + 1 - n ELSE n
<1>1. l \in Nat
    BY DEF readable, isTrack
<1>2. charAt(t, n) = IF k % 3 = 2 THEN t.letters[(k + 1) \div 3] ELSE "*"
    BY DEF charAt
<1>3. k % 3 # 2
    <2>1. n \in Int
        OBVIOUS
    <2>2. CASE t.backward
        <3>1. k = 3 * l + 1 - n
            BY <2>2
        <3> HIDE DEF k, l
        <3> QED BY <1>1, <2>1, <3>1
    <2>3. CASE ~t.backward
        BY <2>3
    <2> QED BY <2>2, <2>3
<1> HIDE DEF k
<1> QED BY <1>2, <1>3

\* Bars in the window after e changes of colour.
indexAfter(t, e) ==
    LET n == passed(t, e)
    IN  IF n = 0 THEN IF e < 9 THEN e + 1 ELSE 10 ELSE e - Len(t.lead) - 10 * n + 2

LEMMA IndexIs ==
    ASSUME NEW t, NEW x
    PROVE  /\ passed(t, x) = 0 => indexAfter(t, x) = IF x < 9 THEN x + 1 ELSE 10
           /\ passed(t, x) # 0 => indexAfter(t, x) = x - Len(t.lead) - 10 * passed(t, x) + 2
BY DEF indexAfter

LEMMA NothingPassed ==
    ASSUME NEW t, readable(t)
    PROVE  passed(t, 0) = 0 /\ indexAfter(t, 0) = 1
<1> DEFINE L == Len(t.lead)
<1>1. L = 1 \/ L = 3
    BY DEF readable, isTrack, wellPrinted
<1>2. passed(t, 0) = IF 0 < L THEN 0 ELSE (0 - L + 1) \div 10
    BY DEF passed
<1> HIDE DEF L
<1>3. passed(t, 0) = 0
    BY <1>1, <1>2
<1> QED BY <1>3, IndexIs

\* Which changes of colour complete what.
LEMMA Completes ==
    ASSUME NEW t, readable(t), NEW e \in Nat, NEW x, x = e + 1, x <= stretches(t)
    PROVE  LET n == passed(t, e)
               L == Len(t.lead)
           IN  /\ n \in Nat /\ indexAfter(t, e) \in 1..10
               /\ indexAfter(t, e) < 10 =>
                    passed(t, x) = n /\ indexAfter(t, x) = indexAfter(t, e) + 1
               /\ indexAfter(t, e) = 10 =>
                    \/ /\ L = 3 /\ x \in {10, 11} /\ n = 0
                       /\ passed(t, x) = 0 /\ indexAfter(t, x) = 10
                    \/ /\ x = L + 10 * (n + 1) - 1 /\ passed(t, x) = n + 1
                       /\ indexAfter(t, x) = 1 /\ n + 1 \in 1..(3 * Len(t.letters))
<1> DEFINE L == Len(t.lead)
           l == Len(t.letters)
           n == passed(t, e)
           m == passed(t, x)
           i == indexAfter(t, e)
           j == indexAfter(t, x)
<1>1. (L = 1 \/ L = 3) /\ l \in Nat
    BY DEF readable, isTrack, wellPrinted
<1>2. x <= L + 30 * l - 1
    BY DEF stretches
<1>3. n = IF e < L THEN 0 ELSE (e - L + 1) \div 10
    BY DEF passed
<1>4. m = IF x < L THEN 0 ELSE (x - L + 1) \div 10
    BY DEF passed
<1>5. /\ n = 0 => i = IF e < 9 THEN e + 1 ELSE 10
      /\ n # 0 => i = e - L - 10 * n + 2
    BY IndexIs
<1>6. /\ m = 0 => j = IF x < 9 THEN x + 1 ELSE 10
      /\ m # 0 => j = x - L - 10 * m + 2
    BY IndexIs
<1> HIDE DEF L, l, n, m, i, j
<1>7. n \in Nat /\ m \in Nat
    BY <1>1, <1>3, <1>4
<1>8. /\ n = 0 => e <= L + 8
      /\ n # 0 => L + 10 * n - 1 <= e /\ e <= L + 10 * n + 8
    BY <1>1, <1>3, <1>7
<1>9. m = IF n = 0 THEN IF x <= L + 8 THEN 0 ELSE 1
          ELSE IF x <= L + 10 * n + 8 THEN n ELSE n + 1
    BY <1>1, <1>4, <1>7, <1>8
<1>10. i \in 1..10 /\ (i < 10 => m = n /\ j = i + 1)
    BY <1>1, <1>5, <1>6, <1>7, <1>8, <1>9
<1>11. i = 10 => \/ L = 3 /\ x \in {10, 11} /\ n = 0 /\ m = 0 /\ j = 10
                 \/ x = L + 10 * (n + 1) - 1 /\ m = n + 1 /\ j = 1 /\ n + 1 \in 1..(3 * l)
    BY <1>1, <1>2, <1>5, <1>6, <1>7, <1>8, <1>9
<1> QED BY <1>7, <1>10, <1>11 DEF n, m, L, l, i, j

\* One change of colour, before the window is reset: it was not full; or it was
\* and holds the stray mark, which is so twice; or it holds the next character.
LEMMA WindowMoves ==
    ASSUME NEW t, readable(t), NEW e \in Nat, NEW x, x = e + 1, x <= stretches(t),
           NEW w, Holds(w, t, e), w.index = indexAfter(t, e), NEW n, n = passed(t, e),
           NEW next, next = nextBar(w, stretch(t, x), colourOf(e + 2))
    PROVE  /\ n \in Nat /\ Holds(next, t, x) /\ next.match = 0
           /\ \/ w.index < 10 /\ passed(t, x) = n /\ next.index = indexAfter(t, x)
              \/ /\ w.index = 10 /\ next.index = 10 /\ indexAfter(t, x) = 10
                 /\ passed(t, x) = n /\ n = 0 /\ Len(t.lead) = 3 /\ x \in {10, 11}
                 /\ startsWhite(next) <=> x = 11
                 /\ x = 10 => \A m \in Codes :
                        sortBarType(next) \notin {arrayMaps[m], reverseString(arrayMaps[m])}
              \/ /\ w.index = 10 /\ next.index = 10 /\ indexAfter(t, x) = 1
                 /\ passed(t, x) = n + 1 /\ n + 1 \in 1..(3 * Len(t.letters))
                 /\ ~startsWhite(next) /\ sortBarType(next) = wideAt(t, n + 1)
<1> DEFINE L == Len(t.lead)
<1>1. Holds(next, t, x) /\ next.match = 0
      /\ next.index = IF w.index < 10 THEN w.index + 1 ELSE 10
    BY NextHolds
<1>2. /\ n \in Nat /\ indexAfter(t, e) \in 1..10
      /\ indexAfter(t, e) < 10 => passed(t, x) = n /\ indexAfter(t, x) = indexAfter(t, e) + 1
      /\ indexAfter(t, e) = 10 =>
              \/ /\ L = 3 /\ x \in {10, 11} /\ n = 0
                 /\ passed(t, x) = 0 /\ indexAfter(t, x) = 10
              \/ /\ x = L + 10 * (n + 1) - 1 /\ passed(t, x) = n + 1
                 /\ indexAfter(t, x) = 1 /\ n + 1 \in 1..(3 * Len(t.letters))
    BY Completes
<1> HIDE DEF L
<1>3. CASE w.index < 10
    BY <1>1, <1>2, <1>3
<1>4. CASE w.index = 10 /\ L = 3 /\ x \in {10, 11} /\ n = 0
           /\ passed(t, x) = 0 /\ indexAfter(t, x) = 10
    <2>1. next.index = 10
        BY <1>1, <1>4
    <2>2. Len(t.letters) >= 1
        <3>1. Len(t.letters) \in Nat
            BY DEF readable, isTrack
        <3> QED BY <1>4, <3>1 DEF stretches, L
    <2>3. CASE x = 10
        <3>1. /\ ~startsWhite(next)
              /\ \A m \in Codes :
                    sortBarType(next) \notin {arrayMaps[m], reverseString(arrayMaps[m])}
            BY <1>1, <1>4, <2>1, <2>2, <2>3, StrayIgnored DEF L
        <3> QED BY <1>1, <1>2, <1>4, <2>1, <2>3, <3>1 DEF L
    <2>4. CASE x = 11
        <3>1. startsWhite(next)
            BY <1>1, <2>1, <2>4, WhiteAfterStray
        <3> QED BY <1>1, <1>2, <1>4, <2>1, <2>4, <3>1 DEF L
    <2> QED BY <1>4, <2>3, <2>4
<1>5. CASE w.index = 10 /\ x = L + 10 * (n + 1) - 1 /\ passed(t, x) = n + 1
           /\ indexAfter(t, x) = 1 /\ n + 1 \in 1..(3 * Len(t.letters))
    <2> DEFINE m == n + 1
    <2>1. Holds(next, t, Len(t.lead) + 10 * m - 1) /\ m \in 1..(3 * Len(t.letters))
        BY <1>1, <1>5 DEF L
    <2> HIDE DEF m
    <2>2. next.index = 10
        BY <1>1, <1>5
    <2>3. ~startsWhite(next) /\ sortBarType(next) = wideAt(t, m)
        BY <2>1, <2>2, CharacterFound
    <2> QED BY <1>1, <1>2, <1>5, <2>2, <2>3 DEF m
<1> QED BY <1>2, <1>3, <1>4, <1>5
====
