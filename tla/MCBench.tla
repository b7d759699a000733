---- MODULE MCBench ----
(***************************************************************************)
(* Tracks and fields for TLC, and the channels whose sensor tasks main.c   *)
(* starts; these do not touch one another's state.  Symmetry is not used.  *)
(***************************************************************************)
EXTENDS Bench, Code39

laid(lead, letters) ==
    [lead |-> lead, letters |-> letters, backward |-> FALSE,
     thin |-> 1, thick |-> 4, quiet |-> 30]

\* Every letter alone, and pairs after a stray mark.
MCTracks ==
    {laid(<<40>>, <<c>>) : c \in Letters}
        \cup {laid(<<40, 2, 30>>, <<c, d>>) : c \in {"A", "P"}, d \in {"A", "C"}}

\* Both signs, and both ends of a high byte; from 4096 and 4351 together comes a
\* value that is off by all of 256.
MCField == {-32768, -1, 0, 4096, 4351}

MCChannels == {"ir", "barcode"}
MCViaHandler == {"barcode"}
====
