----------------------------- MODULE PictureFeed -----------------------------
(***************************************************************************)
(* What the terminal display promises of pictures (docs/TERMINAL.md, "When *)
(* the picture updates" and "Animation"): every frame is shown, in order;  *)
(* a still picture not yet started gives way to a newer one; Ctrl-C drops  *)
(* what has not been sent.                                                 *)
(***************************************************************************)
EXTENDS Naturals, Sequences

CONSTANT MayFail    \* a picture may fail to be written

VARIABLES
  pending,   \* pictures handed over and not yet shown, oldest first
  shown,     \* the picture shown last: [kind, page]
  stopped    \* Ctrl-C was pressed and not yet dealt with

fvars == <<pending, shown, stopped>>

FInit == pending = << >> /\ shown.page = 0 /\ ~stopped

Newest == IF pending = << >> THEN shown.page ELSE pending[Len(pending)].page

(* A picture of the page is handed over; pages only get newer. *)
FEnd ==
  /\ UNCHANGED <<shown, stopped>>
  /\ Len(pending') = Len(pending) + 1
  /\ SubSeq(pending', 1, Len(pending)) = pending
  /\ pending'[Len(pending')].page >= Newest

FShow ==
  /\ UNCHANGED stopped
  /\ pending # << >>
  /\ shown' = Head(pending)
  /\ pending' = Tail(pending)

(* How t can be had from s by leaving some out: where each comes from. *)
Ways(t, s) == {f \in [1 .. Len(t) -> 1 .. Len(s)] :
                 /\ \A i \in 1 .. Len(t) : t[i] = s[f[i]]
                 /\ \A i, j \in 1 .. Len(t) : i < j => f[i] < f[j]}

GivesWay(k) == /\ pending[k].kind = "still"
               /\ \E j \in k + 1 .. Len(pending) : pending[j].kind \in {"still", "gifend"}

(* A still gives way to a still or a looping GIF after it. *)
FSupersede ==
  /\ Len(pending') < Len(pending)
  /\ UNCHANGED <<shown, stopped>>
  /\ \E f \in Ways(pending', pending) :
       \A k \in 1 .. Len(pending) : GivesWay(k) \/ \E i \in 1 .. Len(pending') : f[i] = k

(* Nothing is dropped but after Ctrl-C ... *)
FDrop ==
  /\ stopped /\ Len(pending') < Len(pending)
  /\ UNCHANGED <<shown, stopped>>
  /\ \E f \in Ways(pending', pending) : TRUE

(* ... or because it cannot be written, or is a GIF left without frames. *)
FFail ==
  /\ UNCHANGED <<shown, stopped>>
  /\ pending # << >>
  /\ MayFail \/ pending[1].kind = "gifend"
  /\ pending' = Tail(pending)

FSignal == stopped' # stopped /\ UNCHANGED <<pending, shown>>

FNext == FSignal \/ FEnd \/ FShow \/ FFail \/ FSupersede \/ FDrop

FSpec == FInit /\ [][FNext]_fvars
=============================================================================
