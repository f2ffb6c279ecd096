------------------------------ MODULE TimeFold ------------------------------
(***************************************************************************)
(* What a function over a time range promises: it takes the times of the   *)
(* range in order, one or many at once, none twice and none left out, and  *)
(* when all are taken answers right; or it gives up, and does not answer.  *)
(***************************************************************************)
EXTENDS Integers

VARIABLES
  total,    \* how many times the range holds
  taken,    \* how many of them have been taken
  outcome   \* "none" yet, "right" or "failed"

foldvars == <<total, taken, outcome>>

Init == taken = 0 /\ outcome = "none"

Take ==
  /\ outcome = "none"
  /\ taken < total /\ taken' \in taken + 1 .. total
  /\ UNCHANGED <<total, outcome>>

(* A range of one time is answered as the time is taken.                   *)
Answer ==
  /\ outcome = "none" /\ (taken = total \/ total = 1)
  /\ outcome' = "right" /\ taken' = total
  /\ UNCHANGED total

GiveUp ==
  /\ outcome = "none"
  /\ outcome' = "failed"
  /\ UNCHANGED <<total, taken>>

Next == Take \/ Answer \/ GiveUp

Spec == Init /\ [][Next]_foldvars
=============================================================================
