---- MODULE MCBarcode ----
(***************************************************************************)
(* Tracks for TLC: every letter alone, in both directions, clean and after *)
(* a stray mark; pairs of bar codes, which overflow a queue of one; and    *)
(* three, so that a message which a character came into is followed by     *)
(* another one.                                                            *)
(***************************************************************************)
EXTENDS BarcodeReader

laid(lead, letters, backward, thin, thick_) ==
    [lead |-> lead, letters |-> letters, backward |-> backward,
     thin |-> thin, thick |-> thick_, quiet |-> 30]

Clean == <<40>>
Stray == <<40, 2, 30>>

MCTracks ==
    {laid(lead, <<c>>, b, 1, 4) : lead \in {Clean, Stray}, c \in Letters, b \in BOOLEAN}
        \cup {laid(Clean, <<c>>, FALSE, 3, 9) : c \in Letters}
        \cup {laid(Clean, <<c, d>>, b, 2, 5) : c, d \in {"A", "P", "U"}, b \in BOOLEAN}
        \cup {laid(Clean, <<"A", "B", "P">>, FALSE, 2, 5)}
====
