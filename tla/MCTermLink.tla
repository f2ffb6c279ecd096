----------------------------- MODULE MCTermLink -----------------------------
(* Small instances of TermLink for TLC. *)
EXTENDS TermLink, TLC
=============================================================================
