----------------------------- MODULE MCAveLoop -----------------------------
(* Small instances of AveLoop for TLC. *)
EXTENDS AveLoop, TLC
=============================================================================
