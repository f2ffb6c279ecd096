--------------------------- MODULE MCTermDisplay ---------------------------
(* Small instances of TermDisplay for TLC. *)
EXTENDS TermDisplay, TLC
=============================================================================
