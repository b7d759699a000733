---- MODULE BarWindow ----
(***************************************************************************)
(* The window of ten bars that the ADC interrupt fills in both versions of *)
(* the barcode reader: barcode_reader.c and driver/irline's backup of it.  *)
(*                                                                         *)
(* A window w has the array barcodes, w.bars, barcode_arr_index and the    *)
(* entry of the table, if not 0, that the latest change of colour matched. *)
(* The length of a bar is that from its start to the next change, in units *)
(* of 10 ms; time itself is left out, and so is the averaging of 101       *)
(* samples that decides on a colour.                                       *)
(***************************************************************************)
EXTENDS Code39

BARCODE_BUF_SIZE == 10
BARCODE_ARR_SIZE == 9
Slots == 0..(BARCODE_BUF_SIZE - 1)

\* The colour -1 of resetBarcodes is "none".
bar(colour, length) == [colour |-> colour, length |-> length]

\* The newest bar, which has begun and not ended, is kept as the first one.
resetBarcodes(w) ==
    [w EXCEPT !.bars = [n \in Slots |-> IF n = 0 THEN w.bars[BARCODE_BUF_SIZE - 1]
                                                 ELSE bar("none", 0)],
              !.index = 1]

\* The static arrays are zero, so the first bar is white.
initially ==
    resetBarcodes([bars |-> [n \in Slots |-> bar("white", 0)], index |-> 1, match |-> 0])

\* The newest bar has ended after length, another one begins: in the next
\* slot, or in the last one after a shift (the assignments of addBarcode).
nextBar(w, length, colour) ==
    LET ended == [w.bars EXCEPT ![w.index - 1].length = length]
    IN  IF w.index < BARCODE_BUF_SIZE
        THEN [bars |-> [ended EXCEPT ![w.index] = bar(colour, 0)],
              index |-> w.index + 1, match |-> 0]
        ELSE [bars |-> [n \in Slots |-> IF n + 1 \in Slots THEN ended[n + 1] ELSE bar(colour, 0)],
              index |-> w.index, match |-> 0]

total(f) == f[1] + f[2] + f[3] + f[4] + f[5] + f[6] + f[7] + f[8] + f[9]

\* Mutant of thick: the size of the buffer instead of that of a character.
thick_of_ten(length) ==
    LET average == total(length) \div BARCODE_BUF_SIZE
    IN  {p \in Positions : length[p] >= average}

\* sortBarType: the positions of the bars that are not shorter than average.
thick(length) ==
    LET average == total(length) \div BARCODE_ARR_SIZE
    IN  {p \in Positions : length[p] >= average}

lengths(w)     == [p \in Positions |-> w.bars[p - 1].length]
sortBarType(w) == thick(lengths(w))

startsWhite(w) == w.bars[0].colour = "white"

\* The first of the entries of the table, 0 if there is none.
firstOf(codes) == IF codes = {} THEN 0 ELSE CHOOSE n \in codes : \A m \in codes : n <= m

\* What the window w, which was full and has got another bar, matches.
decoded_as(w, match) == IF match = 0 THEN w ELSE [resetBarcodes(w) EXCEPT !.match = match]
====
