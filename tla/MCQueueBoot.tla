---- MODULE MCQueueBoot ----
(***************************************************************************)
(* The two channels whose sensor tasks main.c starts.  The channels do not *)
(* touch one another's state; symmetry is not used.                        *)
(***************************************************************************)
EXTENDS QueueBoot

MCChannels == {"ir", "barcode"}
MCViaHandler == {"barcode"}
====
