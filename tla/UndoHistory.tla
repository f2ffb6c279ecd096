----------------------------- MODULE UndoHistory -----------------------------
(***************************************************************************)
(* What undo promises (docs/UNDO.md, "What a step is"): a bounded history  *)
(* of whole pages.  A command the user issues, a script included, is one   *)
(* step however much it draws; undo goes back to the page from before it.  *)
(* Resets of the frame other than a clear forget the history.              *)
(* Pages are opaque here: the meta buffer says what a page is made of.     *)
(***************************************************************************)
EXTENDS Naturals, Sequences

CONSTANT NoPage    \* "nothing to go back to": no page equals it

VARIABLES
  page,      \* the page as it would be replayed now
  past,      \* the pages undo can go back to, oldest first
  before,    \* the page from before the running command, NoPage if not noted
  limit,     \* how many pages are kept; 0 is undo off
  running    \* a command is running

hvars == <<page, past, before, limit, running>>

HInit ==
  /\ past = << >>
  /\ before = NoPage
  /\ limit = 0
  /\ running = FALSE

(* The history with one more page, the oldest given up when it is full. *)
Kept(p) == IF Len(past) = limit THEN Append(Tail(past), p) ELSE Append(past, p)

(* A command starts: the page is noted, unless undo is off. *)
HBegin ==
  /\ ~running
  /\ running' = TRUE
  /\ before' \in {page, NoPage}
  /\ limit = 0 => before' = NoPage
  /\ UNCHANGED <<page, past, limit>>

(* The running command draws or clears. *)
HChange ==
  /\ running
  /\ UNCHANGED <<past, before, limit, running>>

(* The command is over.  It is one step when it changed the page, and only *)
(* a clear followed by the same drawing may be a step without a change.    *)
HEnd ==
  /\ running
  /\ running' = FALSE
  /\ before' = NoPage
  /\ \/ before # NoPage /\ past' = Kept(before)
     \/ before \in {NoPage, page} /\ past' = past
  /\ UNCHANGED <<page, limit>>

(* Undo goes back to the newest page kept. *)
HUndo ==
  /\ ~running
  /\ past # << >>
  /\ page' = past[Len(past)]
  /\ past' = SubSeq(past, 1, Len(past) - 1)
  /\ UNCHANGED <<before, limit, running>>

(* A command resets the frame in another way, or changes the limit. *)
HForget ==
  /\ running
  /\ past' = << >>
  /\ before' = NoPage
  /\ limit' \in Nat
  /\ UNCHANGED running

HNext == HBegin \/ HChange \/ HEnd \/ HUndo \/ HForget

HSpec == HInit /\ [][HNext]_hvars
=============================================================================
