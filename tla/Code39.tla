---- MODULE Code39 ----
(***************************************************************************)
(* The bar codes of barcode_reader.c.  A character is nine bars, black and *)
(* white in turn, the first one black; what tells characters apart is      *)
(* which three of them are wide.                                           *)
(***************************************************************************)
EXTENDS Integers, Sequences

\* The array characters of compareTwoArray, in its order ...
characters == <<"A", "B", "C", "D", "E", "F", "G", "H", "I", "J", "K", "L", "M", "N",
                "O", "P", "Q", "R", "S", "T", "U", "V", "W", "X", "Y", "Z", "*">>

\* ... and the wide bars of each: the digits 2 and 0 of its ARRAY_MAP.
arrayMaps ==
    <<{1,6,9}, {3,6,9}, {1,3,6}, {5,6,9}, {1,5,6}, {3,5,6}, {6,7,9}, {1,6,7}, {3,6,7},
      {5,6,7}, {1,8,9}, {3,8,9}, {1,3,8}, {5,8,9}, {1,5,8}, {3,5,8}, {7,8,9}, {1,7,8},
      {3,7,8}, {5,7,8}, {1,2,9}, {2,3,9}, {1,2,3}, {2,5,9}, {1,2,5}, {2,3,5}, {2,5,7}>>

Codes     == 1..27
Positions == 1..9
Letters   == {characters[n] : n \in Codes} \ {"*"}

mapOf(c) == arrayMaps[CHOOSE n \in Codes : characters[n] = c]

\* reverseString: the bars met from the other end.
reverseString(wide) == {10 - p : p \in wide}

----------------------------------------------------------------------------
(***************************************************************************)
(* External: a track with bar codes printed on it, as the lengths of its   *)
(* stretches of one colour in the order the car meets them, the first one  *)
(* white.  A bar code is a letter between two asterisks; narrow white      *)
(* separates its characters and wide white, quiet, bar codes.  t has the   *)
(* letters, the widths, whether they are met backward, and the stretches   *)
(* that lead to them.                                                      *)
(***************************************************************************)

isTrack(t) ==
    /\ t.letters \in Seq(Letters) /\ t.backward \in BOOLEAN
    /\ t.lead \in Seq(Nat)
    /\ t.thin \in Nat /\ t.thick \in Nat /\ t.quiet \in Nat

\* The n-th character the car meets, and its wide bars.
charAt(t, n) ==
    LET k == IF t.backward THEN 3 * Len(t.letters) + 1 - n ELSE n
    IN  IF k % 3 = 2 THEN t.letters[(k + 1) \div 3] ELSE "*"

wideAt(t, n) ==
    IF t.backward THEN reverseString(mapOf(charAt(t, n))) ELSE mapOf(charAt(t, n))

\* The j-th stretch, and how many there are up to the last bar.
stretch(t, j) ==
    LET i == j - Len(t.lead)
        n == (i + 9) \div 10
        p == i - 10 * (n - 1)
    IN  IF i <= 0 THEN t.lead[j]
        ELSE IF p = 10 THEN IF n % 3 = 0 THEN t.quiet ELSE t.thin
        ELSE IF p \in wideAt(t, n) THEN t.thick ELSE t.thin

stretches(t) == Len(t.lead) + 30 * Len(t.letters) - 1

\* Characters of it that are passed after so many changes of colour: the white
\* after the last of them has begun.
passed(t, changes) ==
    IF changes < Len(t.lead) THEN 0 ELSE (changes - Len(t.lead) + 1) \div 10

\* What a track has to be like to be read: wide bars are three units of 10 ms
\* longer than narrow ones; a single stray mark may come first, if it and the
\* white after it are long enough to make all that follows look narrow.
wellPrinted(t) ==
    /\ t.thick >= t.thin + 3
    /\ \/ Len(t.lead) = 1
       \/ Len(t.lead) = 3 /\ t.lead[2] + t.lead[3] + 5 * t.thin >= 7 * t.thick + 9

\* What the reader makes of a character.  The table is searched in both
\* directions at once, so of two characters that mirror one another only the
\* first one can ever be read.
readAs(c) ==
    CASE c = "U" -> "K" [] c = "V" -> "R" [] c = "W" -> "Q" [] c = "X" -> "O"
      [] c = "Y" -> "N" [] c = "Z" -> "T" [] c = "*" -> "P" [] OTHER -> c
====
