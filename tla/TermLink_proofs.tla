--------------------------- MODULE TermLink_proofs ---------------------------
(* Proofs about TermLink, for every value of its constants: whatever the   *)
(* size of a picture, of a step and of what tmux holds.                    *)
EXTENDS TermLink, TLAPS

(* The most an older tmux is handed between two waits.                     *)
Bound == Larger(Step, Part)

Sending == {"part", "pacepart", "paceend"}

(* HandedOneStep speaks of what tmux holds, and the worker decides by      *)
(* `since', what it has written since the last wait.  The invariant ties   *)
(* the two: `since' is zero when no part is being sent, is within the      *)
(* bound while one is, counts all that tmux may hold, and is part of what  *)
(* was written of this picture.                                            *)
Waited  == ~keeps /\ pc \notin Sending => since = 0
InStep  == ~keeps /\ pc \in Sending => since <= Bound
Counted == ~keeps /\ ~gaveup /\ ~mixed
             => IF pc = "pace" THEN unread = 0 ELSE unread + held <= since
Behind  == pc \in Sending \cup {"pace"} => since <= off
LinkInv == TypeOK /\ Behind /\ Waited /\ InStep /\ Counted

LEMMA StepIsNat ==
  ASSUME LinkAssumption, TypeOK
  PROVE  /\ Step \in Nat /\ Part \in Nat \ {0} /\ Bound \in Nat
         /\ Step <= Bound /\ Part <= Bound /\ Step \div 2 <= Step
         /\ Step \div 2 \in Nat
         /\ ~keeps => Step >= 1
  <1>1. /\ Cap \in Nat /\ Pty \in Nat \ {0} /\ MaxDiv \in Nat
        /\ stepdiv \in Nat \ {0}
    BY DEF LinkAssumption, TypeOK, CountersOK, FlagsOK
  <1>2. Cap \div 4 \in Nat
    BY <1>1
  <1>3. (Cap \div 4) \div stepdiv \in Nat
    BY <1>1, <1>2
  <1>4. Step \in Nat /\ (~keeps => Step >= 1)
    BY <1>3 DEF Step, Larger
  <1>5. Step \div 2 \in Nat /\ Step \div 2 <= Step
    BY <1>4
  <1>6. Part \in Nat \ {0}
    BY <1>1, <1>5 DEF Part, Larger
  <1>7. QED
    BY <1>4, <1>5, <1>6 DEF Bound, Larger

(* An older tmux drops far later than the bound.                           *)
LEMMA BoundBelowCap ==
  ASSUME LinkAssumption, TypeOK, ~keeps
  PROVE  Bound < Cap
  <1>1. Cap \in Nat \ {0, 1} /\ stepdiv \in Nat \ {0} /\ Cap \div 4 \in Nat
    BY DEF LinkAssumption, TypeOK, CountersOK, FlagsOK
   <1>2. (Cap \div 4) \div stepdiv <= Cap \div 4 /\ (Cap \div 4) \div stepdiv \in Nat
    BY <1>1
  <1>3. Step < Cap /\ Step \in Nat
    BY <1>1, <1>2 DEF Step, Larger
  <1>4. Part < Cap
    BY <1>1, <1>3 DEF Part, Larger
  <1>5. QED
    BY <1>3, <1>4 DEF Bound, Larger

(* Every action keeps the invariant: first those that send nothing.        *)
LEMMA BoundSame ==
  ASSUME keeps' = keeps, stepdiv' = stepdiv
  PROVE  Bound' = Bound
  BY DEF Bound, Larger, Step, Part

LEMMA NewPictureKeeps ==
  ASSUME LinkAssumption, LinkInv, NewPicture
  PROVE  LinkInv'
  <1>1. CountersOK' /\ FlagsOK'
    <2>1. CountersOK'
      BY DEF LinkInv, TypeOK, CountersOK, LinkAssumption, NewPicture, knowvars,
             endvars, tmuxvars, outvars
    <2>2. FlagsOK'
      BY ZenonT(30) DEF LinkInv, TypeOK, FlagsOK, NewPicture, knowvars, endvars,
                   tmuxvars, outvars
    <2>3. QED
      BY <2>1, <2>2
  <1>2. Bound' = Bound
    BY BoundSame DEF NewPicture, knowvars, endvars, tmuxvars, outvars
  <1>3. Behind' /\ Waited' /\ InStep' /\ Counted'
    BY <1>2 DEF LinkInv, TypeOK, CountersOK, FlagsOK, Behind, Waited, InStep,
                Counted, Sending, NewPicture, knowvars, endvars, tmuxvars,
                outvars
  <1>4. QED
    BY <1>1, <1>3 DEF LinkInv, TypeOK

LEMMA CheckResizeKeeps ==
  ASSUME LinkAssumption, LinkInv, CheckResize
  PROVE  LinkInv'
  <1>1. CountersOK' /\ FlagsOK'
    <2>1. CountersOK'
      BY DEF LinkInv, TypeOK, CountersOK, LinkAssumption, CheckResize,
             knowvars, endvars, tmuxvars, outvars
    <2>2. FlagsOK'
      BY ZenonT(30) DEF LinkInv, TypeOK, FlagsOK, CheckResize, knowvars, endvars,
                   tmuxvars, outvars
    <2>3. QED
      BY <2>1, <2>2
  <1>2. Bound' = Bound
    BY BoundSame DEF CheckResize, knowvars, endvars, tmuxvars, outvars
  <1>3. Behind' /\ Waited' /\ InStep' /\ Counted'
    BY <1>2 DEF LinkInv, TypeOK, CountersOK, FlagsOK, Behind, Waited, InStep,
                Counted, Sending, CheckResize, knowvars, endvars, tmuxvars,
                outvars
  <1>4. QED
    BY <1>1, <1>3 DEF LinkInv, TypeOK

LEMMA AskFailsKeeps ==
  ASSUME LinkAssumption, LinkInv, AskFails
  PROVE  LinkInv'
  <1>1. CountersOK' /\ FlagsOK'
    <2>1. CountersOK'
      BY DEF LinkInv, TypeOK, CountersOK, LinkAssumption, AskFails, sendvars,
             knowvars, endvars, tmuxvars, outvars
    <2>2. FlagsOK'
      BY DEF LinkInv, TypeOK, FlagsOK, AskFails, sendvars, knowvars, endvars,
             tmuxvars, outvars
    <2>3. QED
      BY <2>1, <2>2
  <1>2. Bound' = Bound
    BY BoundSame DEF AskFails, sendvars, knowvars, endvars, tmuxvars, outvars
  <1>3. Behind' /\ Waited' /\ InStep' /\ Counted'
    BY <1>2 DEF LinkInv, TypeOK, CountersOK, FlagsOK, Behind, Waited, InStep,
                Counted, Sending, AskFails, sendvars, knowvars, endvars,
                tmuxvars, outvars
  <1>4. QED
    BY <1>1, <1>3 DEF LinkInv, TypeOK

LEMMA AskHiddenKeeps ==
  ASSUME LinkAssumption, LinkInv, AskHidden
  PROVE  LinkInv'
  <1>1. CountersOK' /\ FlagsOK'
    <2>1. CountersOK'
      BY DEF LinkInv, TypeOK, CountersOK, LinkAssumption, AskHidden, sendvars,
             endvars, tmuxvars, outvars, histvars
    <2>2. FlagsOK'
      BY DEF LinkInv, TypeOK, FlagsOK, AskHidden, sendvars, endvars, tmuxvars,
             outvars, histvars
    <2>3. QED
      BY <2>1, <2>2
  <1>2. Bound' = Bound
    BY BoundSame DEF AskHidden, sendvars, endvars, tmuxvars, outvars, histvars
  <1>3. Behind' /\ Waited' /\ InStep' /\ Counted'
    BY <1>2 DEF LinkInv, TypeOK, CountersOK, FlagsOK, Behind, Waited, InStep,
                Counted, Sending, AskHidden, sendvars, endvars, tmuxvars,
                outvars, histvars
  <1>4. QED
    BY <1>1, <1>3 DEF LinkInv, TypeOK

LEMMA AskShownKeeps ==
  ASSUME LinkAssumption, LinkInv, AskShown
  PROVE  LinkInv'
  <1>1. CountersOK' /\ FlagsOK'
    <2>1. CountersOK'
      BY DEF LinkInv, TypeOK, CountersOK, LinkAssumption, AskShown, endvars
    <2>2. FlagsOK'
      BY Zenon DEF LinkInv, TypeOK, FlagsOK, AskShown, endvars
    <2>3. QED
      BY <2>1, <2>2
  <1>2. Bound' = Bound
    BY BoundSame DEF AskShown, endvars
  <1>3. Behind' /\ Waited' /\ InStep' /\ Counted'
    BY <1>2 DEF LinkInv, TypeOK, CountersOK, FlagsOK, Behind, Waited, InStep,
                Counted, Sending, AskShown, endvars
  <1>4. QED
    BY <1>1, <1>3 DEF LinkInv, TypeOK

LEMMA WaitForRoomKeeps ==
  ASSUME LinkAssumption, LinkInv, WaitForRoom
  PROVE  LinkInv'
  <1>1. CountersOK' /\ FlagsOK'
    <2>1. CountersOK'
      BY DEF LinkInv, TypeOK, CountersOK, LinkAssumption, WaitForRoom,
             sendvars, knowvars, endvars, tmuxvars, outvars, histvars
    <2>2. FlagsOK'
      BY DEF LinkInv, TypeOK, FlagsOK, WaitForRoom, sendvars, knowvars,
             endvars, tmuxvars, outvars, histvars
    <2>3. QED
      BY <2>1, <2>2
  <1>2. Bound' = Bound
    BY BoundSame DEF WaitForRoom, sendvars, knowvars, endvars, tmuxvars,
                     outvars, histvars
  <1>3. Behind' /\ Waited' /\ InStep' /\ Counted'
    BY <1>2 DEF LinkInv, TypeOK, CountersOK, FlagsOK, Behind, Waited, InStep,
                Counted, Sending, WaitForRoom, sendvars, knowvars, endvars,
                tmuxvars, outvars, histvars
  <1>4. QED
    BY <1>1, <1>3 DEF LinkInv, TypeOK

LEMMA PartsDoneKeeps ==
  ASSUME LinkAssumption, LinkInv, PartsDone
  PROVE  LinkInv'
  <1>1. CountersOK' /\ FlagsOK'
    <2>1. CountersOK'
      BY DEF LinkInv, TypeOK, CountersOK, LinkAssumption, PartsDone, sendvars,
             knowvars, endvars, tmuxvars, outvars, histvars
    <2>2. FlagsOK'
      BY DEF LinkInv, TypeOK, FlagsOK, PartsDone, sendvars, knowvars, endvars,
             tmuxvars, outvars, histvars
    <2>3. QED
      BY <2>1, <2>2
  <1>2. Bound' = Bound
    BY BoundSame DEF PartsDone, sendvars, knowvars, endvars, tmuxvars, outvars,
                     histvars
  <1>3. Behind' /\ Waited' /\ InStep' /\ Counted'
    BY <1>2 DEF LinkInv, TypeOK, CountersOK, FlagsOK, Behind, Waited, InStep,
                Counted, Sending, PartsDone, sendvars, knowvars, endvars,
                tmuxvars, outvars, histvars
  <1>4. QED
    BY <1>1, <1>3 DEF LinkInv, TypeOK

LEMMA AbandonedKeeps ==
  ASSUME LinkAssumption, LinkInv, Abandoned
  PROVE  LinkInv'
  <1>1. CountersOK' /\ FlagsOK'
    <2>1. CountersOK'
      BY DEF LinkInv, TypeOK, CountersOK, LinkAssumption, Abandoned, sendvars,
             knowvars, endvars, tmuxvars, outvars, histvars
    <2>2. FlagsOK'
      BY DEF LinkInv, TypeOK, FlagsOK, Abandoned, sendvars, knowvars, endvars,
             tmuxvars, outvars, histvars
    <2>3. QED
      BY <2>1, <2>2
  <1>2. Bound' = Bound
    BY BoundSame DEF Abandoned, sendvars, knowvars, endvars, tmuxvars, outvars,
                     histvars
  <1>3. Behind' /\ Waited' /\ InStep' /\ Counted'
    BY <1>2 DEF LinkInv, TypeOK, CountersOK, FlagsOK, Behind, Waited, InStep,
                Counted, Sending, Abandoned, sendvars, knowvars, endvars,
                tmuxvars, outvars, histvars
  <1>4. QED
    BY <1>1, <1>3 DEF LinkInv, TypeOK

LEMMA LookKeeps ==
  ASSUME LinkAssumption, LinkInv, Look
  PROVE  LinkInv'
  <1>1. CountersOK' /\ FlagsOK'
    <2>1. CountersOK'
      BY DEF LinkInv, TypeOK, CountersOK, LinkAssumption, Look, sendvars,
             knowvars, endvars, tmuxvars, outvars, histvars
    <2>2. FlagsOK'
      BY DEF LinkInv, TypeOK, FlagsOK, Look, sendvars, knowvars, endvars,
             tmuxvars, outvars, histvars
    <2>3. QED
      BY <2>1, <2>2
  <1>2. Bound' = Bound
    BY BoundSame DEF Look, sendvars, knowvars, endvars, tmuxvars, outvars,
                     histvars
  <1>3. Behind' /\ Waited' /\ InStep' /\ Counted'
    BY <1>2 DEF LinkInv, TypeOK, CountersOK, FlagsOK, Behind, Waited, InStep,
                Counted, Sending, Look, sendvars, knowvars, endvars, tmuxvars,
                outvars, histvars
  <1>4. QED
    BY <1>1, <1>3 DEF LinkInv, TypeOK

LEMMA LookPassedKeeps ==
  ASSUME LinkAssumption, LinkInv, LookPassed
  PROVE  LinkInv'
  <1>1. CountersOK' /\ FlagsOK'
    <2>1. CountersOK'
      BY DEF LinkInv, TypeOK, CountersOK, LinkAssumption, LookPassed, sendvars,
             knowvars, endvars, tmuxvars, outvars, histvars
    <2>2. FlagsOK'
      BY DEF LinkInv, TypeOK, FlagsOK, LookPassed, sendvars, knowvars, endvars,
             tmuxvars, outvars, histvars
    <2>3. QED
      BY <2>1, <2>2
  <1>2. Bound' = Bound
    BY BoundSame DEF LookPassed, sendvars, knowvars, endvars, tmuxvars,
                     outvars, histvars
  <1>3. Behind' /\ Waited' /\ InStep' /\ Counted'
    BY <1>2 DEF LinkInv, TypeOK, CountersOK, FlagsOK, Behind, Waited, InStep,
                Counted, Sending, LookPassed, sendvars, knowvars, endvars,
                tmuxvars, outvars, histvars
  <1>4. QED
    BY <1>1, <1>3 DEF LinkInv, TypeOK

LEMMA LookAgainKeeps ==
  ASSUME LinkAssumption, LinkInv, LookAgain
  PROVE  LinkInv'
  <1>1. CountersOK' /\ FlagsOK'
    <2>1. CountersOK'
      BY DEF LinkInv, TypeOK, CountersOK, LinkAssumption, LookAgain, knowvars,
             endvars, tmuxvars, outvars, histvars
    <2>2. FlagsOK'
      BY DEF LinkInv, TypeOK, FlagsOK, LookAgain, knowvars, endvars, tmuxvars,
             outvars, histvars
    <2>3. QED
      BY <2>1, <2>2
  <1>2. Bound' = Bound
    BY BoundSame DEF LookAgain, knowvars, endvars, tmuxvars, outvars, histvars
  <1>3. Behind' /\ Waited' /\ InStep' /\ Counted'
    BY <1>2 DEF LinkInv, TypeOK, CountersOK, FlagsOK, Behind, Waited, InStep,
                Counted, Sending, LookAgain, knowvars, endvars, tmuxvars,
                outvars, histvars
  <1>4. QED
    BY <1>1, <1>3 DEF LinkInv, TypeOK

LEMMA LookUnsureKeeps ==
  ASSUME LinkAssumption, LinkInv, LookUnsure
  PROVE  LinkInv'
  <1>1. CountersOK' /\ FlagsOK'
    <2>1. CountersOK'
      BY DEF LinkInv, TypeOK, CountersOK, LinkAssumption, LookUnsure, sendvars,
             knowvars, endvars, tmuxvars, outvars
    <2>2. FlagsOK'
      BY DEF LinkInv, TypeOK, FlagsOK, LookUnsure, sendvars, knowvars, endvars,
             tmuxvars, outvars
    <2>3. QED
      BY <2>1, <2>2
  <1>2. Bound' = Bound
    BY BoundSame DEF LookUnsure, sendvars, knowvars, endvars, tmuxvars, outvars
  <1>3. Behind' /\ Waited' /\ InStep' /\ Counted'
    BY <1>2 DEF LinkInv, TypeOK, CountersOK, FlagsOK, Behind, Waited, InStep,
                Counted, Sending, LookUnsure, sendvars, knowvars, endvars,
                tmuxvars, outvars
  <1>4. QED
    BY <1>1, <1>3 DEF LinkInv, TypeOK

LEMMA GiveUpKeeps ==
  ASSUME LinkAssumption, LinkInv, GiveUp
  PROVE  LinkInv'
  <1>1. CountersOK' /\ FlagsOK'
    <2>1. CountersOK'
      BY DEF LinkInv, TypeOK, CountersOK, LinkAssumption, GiveUp, Mended,
             sendvars, knowvars, endvars, outvars
    <2>2. FlagsOK'
      BY DEF LinkInv, TypeOK, FlagsOK, GiveUp, Mended, sendvars, knowvars,
             endvars, outvars
    <2>3. QED
      BY <2>1, <2>2
  <1>2. Bound' = Bound
    BY BoundSame DEF GiveUp, Mended, sendvars, knowvars, endvars, outvars
  <1>3. Behind' /\ Waited' /\ InStep' /\ Counted'
    BY <1>2 DEF LinkInv, TypeOK, CountersOK, FlagsOK, Behind, Waited, InStep,
                Counted, Sending, GiveUp, Mended, sendvars, knowvars, endvars,
                outvars
  <1>4. QED
    BY <1>1, <1>3 DEF LinkInv, TypeOK

LEMMA TryAgainKeeps ==
  ASSUME LinkAssumption, LinkInv, TryAgain
  PROVE  LinkInv'
  <1>1. CountersOK' /\ FlagsOK'
    <2>1. CountersOK'
      BY DEF LinkInv, TypeOK, CountersOK, LinkAssumption, TryAgain, Mended,
             knowvars, endvars, outvars, histvars
    <2>2. FlagsOK'
      BY DEF LinkInv, TypeOK, FlagsOK, TryAgain, Mended, knowvars, endvars,
             outvars, histvars
    <2>3. QED
      BY <2>1, <2>2
  <1>2. Bound' = Bound
    BY BoundSame DEF TryAgain, Mended, knowvars, endvars, outvars, histvars
  <1>3. Behind' /\ Waited' /\ InStep' /\ Counted'
    BY <1>2 DEF LinkInv, TypeOK, CountersOK, FlagsOK, Behind, Waited, InStep,
                Counted, Sending, TryAgain, Mended, knowvars, endvars, outvars,
                histvars
  <1>4. QED
    BY <1>1, <1>3 DEF LinkInv, TypeOK

LEMMA RedrawKeeps ==
  ASSUME LinkAssumption, LinkInv, Redraw
  PROVE  LinkInv'
  <1>1. CountersOK' /\ FlagsOK'
    <2>1. CountersOK'
      BY DEF LinkInv, TypeOK, CountersOK, LinkAssumption, Redraw, Event,
             sendvars, knowvars, endvars, outvars
    <2>2. FlagsOK'
      BY DEF LinkInv, TypeOK, FlagsOK, Redraw, Event, sendvars, knowvars,
             endvars, outvars
    <2>3. QED
      BY <2>1, <2>2
  <1>2. Bound' = Bound
    BY BoundSame DEF Redraw, Event, sendvars, knowvars, endvars, outvars
  <1>3. Behind' /\ Waited' /\ InStep' /\ Counted'
    BY <1>2 DEF LinkInv, TypeOK, CountersOK, FlagsOK, Behind, Waited, InStep,
                Counted, Sending, Redraw, Event, sendvars, knowvars, endvars,
                outvars
  <1>4. QED
    BY <1>1, <1>3 DEF LinkInv, TypeOK

LEMMA OutsideKeeps ==
  ASSUME LinkAssumption, LinkInv, Outside
  PROVE  LinkInv'
  <1>1. CountersOK' /\ FlagsOK'
    <2>1. CountersOK'
      BY DEF LinkInv, TypeOK, CountersOK, LinkAssumption, Outside, Event,
             sendvars, knowvars, endvars, tmuxvars
    <2>2. FlagsOK'
      <3>1. hidden' \in BOOLEAN /\ resized' \in BOOLEAN
        BY Zenon DEF LinkInv, TypeOK, FlagsOK, Outside, Event, sendvars,
                     knowvars, endvars, tmuxvars
      <3>2. QED
        BY <3>1 DEF LinkInv, TypeOK, FlagsOK, Outside, Event, sendvars,
                    knowvars, endvars, tmuxvars
    <2>3. QED
      BY <2>1, <2>2
  <1>2. Bound' = Bound
    BY BoundSame DEF Outside, Event, sendvars, knowvars, endvars, tmuxvars
  <1>3. Behind' /\ Waited' /\ InStep' /\ Counted'
    BY <1>2 DEF LinkInv, TypeOK, CountersOK, FlagsOK, Behind, Waited, InStep,
                Counted, Sending, Outside, Event, sendvars, knowvars, endvars,
                tmuxvars
  <1>4. QED
    BY <1>1, <1>3 DEF LinkInv, TypeOK

LEMMA QuitKeeps ==
  ASSUME LinkAssumption, LinkInv, Quit
  PROVE  LinkInv'
  <1>1. CountersOK' /\ FlagsOK'
    <2>1. CountersOK'
      BY DEF LinkInv, TypeOK, CountersOK, LinkAssumption, Quit, sendvars,
             knowvars, endvars, tmuxvars, outvars, histvars
    <2>2. FlagsOK'
      BY DEF LinkInv, TypeOK, FlagsOK, Quit, sendvars, knowvars, endvars,
             tmuxvars, outvars, histvars
    <2>3. QED
      BY <2>1, <2>2
  <1>2. Bound' = Bound
    BY BoundSame DEF Quit, sendvars, knowvars, endvars, tmuxvars, outvars,
                     histvars
  <1>3. Behind' /\ Waited' /\ InStep' /\ Counted'
    BY <1>2 DEF LinkInv, TypeOK, CountersOK, FlagsOK, Behind, Waited, InStep,
                Counted, Sending, Quit, sendvars, knowvars, endvars, tmuxvars,
                outvars, histvars
  <1>4. QED
    BY <1>1, <1>3 DEF LinkInv, TypeOK

(* The next part always fits the bound: either nothing was written since   *)
(* the last wait, or room has looked at both together.                     *)
LEMMA SendPartKeeps ==
  ASSUME LinkAssumption, LinkInv, SendPart
  PROVE  LinkInv'
  <1>1. /\ Step \in Nat /\ Part \in Nat \ {0} /\ Bound \in Nat
        /\ Part <= Bound /\ Step <= Bound /\ Step \div 2 <= Step
        /\ Step \div 2 \in Nat /\ (~keeps => Step >= 1)
    BY StepIsNat DEF LinkInv
  <1>2. off \in 0 .. Size /\ off < Size /\ Size \in Nat /\ since \in Nat
        /\ Pty \in Nat /\ unread \in Nat
    BY DEF LinkInv, TypeOK, CountersOK, LinkAssumption, SendPart
  <1>3. NextPart \in Nat /\ NextPart <= Part /\ off + NextPart <= Size
    BY <1>1, <1>2 DEF NextPart, Lesser
  <1>4. since' = since + NextPart /\ unread' = unread + NextPart
        /\ pc = "part" /\ UNCHANGED <<pc, keeps, stepdiv, held, gaveup, mixed>>
        /\ off' = off + NextPart /\ unread' <= Pty
    BY <1>2, <1>3 DEF SendPart, knowvars, endvars, histvars
  <1>5. PICK lim \in Limits : Room(NextPart, lim)
    BY DEF SendPart
  <1>6. lim \in Nat /\ lim <= Step
    BY <1>1, <1>5 DEF Limits
  <1>7. since + NextPart <= Bound \/ keeps
    BY <1>1, <1>2, <1>3, <1>5, <1>6 DEF Room
  <1>8. CountersOK' /\ FlagsOK'
    <2>1. since <= off
      BY <1>4 DEF LinkInv, Behind, Sending
    <2>2. CountersOK'
      BY <1>2, <1>3, <1>4, <2>1
         DEF LinkInv, TypeOK, CountersOK, SendPart, knowvars, endvars, outvars,
             histvars
    <2>3. FlagsOK'
      BY DEF LinkInv, TypeOK, FlagsOK, SendPart, knowvars, endvars, outvars,
             histvars
    <2>4. QED
      BY <2>2, <2>3
  <1>9. Bound' = Bound
    BY <1>4, BoundSame
  <1>10. Behind' /\ Waited' /\ InStep' /\ Counted'
    BY <1>2, <1>3, <1>4, <1>7, <1>9
       DEF LinkInv, TypeOK, CountersOK, Behind, Waited, InStep, Counted, Sending
  <1>11. QED
    BY <1>8, <1>10 DEF LinkInv, TypeOK

(* A wait that ended because the link is clear leaves nothing with tmux;   *)
(* one that gave up says so.                                               *)
LEMMA PaceDoneKeeps ==
  ASSUME LinkAssumption, LinkInv, PaceDone
  PROVE  LinkInv'
  <1>1. CountersOK' /\ FlagsOK'
    <2>1. CountersOK'
      BY DEF LinkInv, TypeOK, CountersOK, LinkAssumption, PaceDone, InPace,
             AfterPace, endvars, tmuxvars, outvars
    <2>2. FlagsOK'
      <3>1. linkslow' \in BOOLEAN
        BY DEF LinkInv, TypeOK, FlagsOK, PaceDone
      <3>2. gaveup' \in BOOLEAN
        BY DEF PaceDone
      <3>3. QED
        BY <3>1, <3>2
           DEF LinkInv, TypeOK, FlagsOK, PaceDone, endvars, tmuxvars, outvars
    <2>3. QED
      BY <2>1, <2>2
  <1>2. Bound' = Bound /\ Bound \in Nat
    BY BoundSame, StepIsNat DEF LinkInv, PaceDone, endvars
  <1>3. pc' # "pace" /\ since' = 0 /\ pc \in {"pace", "pacepart", "paceend"}
    BY DEF PaceDone, InPace, AfterPace
  <1>4. ~gaveup' => unread' = 0 /\ held' = 0
    BY DEF PaceDone, Clear, tmuxvars
  <1>5. Behind' /\ Waited' /\ InStep' /\ Counted'
    BY <1>2, <1>3, <1>4
       DEF LinkInv, TypeOK, CountersOK, Behind, Waited, InStep, Counted,
           Sending, PaceDone, Clear, endvars, tmuxvars
  <1>6. QED
    BY <1>1, <1>5 DEF LinkInv, TypeOK

LEMMA PaceGivesUpKeeps ==
  ASSUME LinkAssumption, LinkInv, PaceGivesUp
  PROVE  LinkInv'
  <1>1. CountersOK' /\ FlagsOK'
    <2>1. CountersOK'
      BY DEF LinkInv, TypeOK, CountersOK, LinkAssumption, PaceGivesUp, InPace,
             AfterPace, endvars, tmuxvars, outvars
    <2>2. FlagsOK'
      <3>1. linkslow' \in BOOLEAN
        BY DEF LinkInv, TypeOK, FlagsOK, PaceGivesUp
      <3>2. gaveup' \in BOOLEAN
        BY DEF PaceGivesUp
      <3>3. QED
        BY <3>1, <3>2
           DEF LinkInv, TypeOK, FlagsOK, PaceGivesUp, endvars, tmuxvars, outvars
    <2>3. QED
      BY <2>1, <2>2
  <1>2. Bound' = Bound /\ Bound \in Nat
    BY BoundSame, StepIsNat DEF LinkInv, PaceGivesUp, endvars
  <1>3. pc' # "pace" /\ since' = 0 /\ pc \in {"pace", "pacepart", "paceend"}
    BY DEF PaceGivesUp, InPace, AfterPace
  <1>4. Behind' /\ Waited' /\ InStep' /\ Counted'
    BY <1>2, <1>3
       DEF LinkInv, TypeOK, CountersOK, Behind, Waited, InStep, Counted,
           Sending, PaceGivesUp, Clear, endvars, tmuxvars
  <1>5. QED
    BY <1>1, <1>4 DEF LinkInv, TypeOK

LEMMA LookLostKeeps ==
  ASSUME LinkAssumption, LinkInv, LookLost
  PROVE  LinkInv'
  <1>1. CountersOK' /\ FlagsOK'
    <2>1. CountersOK'
      BY DEF LinkInv, TypeOK, CountersOK, LinkAssumption, LookLost, endvars,
             tmuxvars, outvars, histvars, Smaller
    <2>2. FlagsOK'
      BY DEF LinkInv, TypeOK, FlagsOK, LookLost, endvars, tmuxvars, outvars,
             histvars, Smaller
    <2>3. QED
      BY <2>1, <2>2
  <1>3. Behind' /\ Waited' /\ InStep' /\ Counted'
    BY DEF LinkInv, TypeOK, CountersOK, FlagsOK, Behind, Waited, InStep,
           Counted, Sending, LookLost, endvars, tmuxvars, outvars, histvars,
           Smaller
  <1>4. QED
    BY <1>1, <1>3 DEF LinkInv, TypeOK

LEMMA LinkDrainsKeeps ==
  ASSUME LinkAssumption, LinkInv, LinkDrains
  PROVE  LinkInv'
  <1>1. CountersOK' /\ FlagsOK'
    <2>1. CountersOK'
      BY DEF LinkInv, TypeOK, CountersOK, LinkAssumption, LinkDrains, sendvars,
             knowvars, endvars, outvars, histvars
    <2>2. FlagsOK'
      BY DEF LinkInv, TypeOK, FlagsOK, LinkDrains, sendvars, knowvars, endvars,
             outvars, histvars
    <2>3. QED
      BY <2>1, <2>2
  <1>2. Bound' = Bound
    BY BoundSame DEF LinkDrains, knowvars, endvars
  <1>3. Behind' /\ Waited' /\ InStep' /\ Counted'
    BY <1>2 DEF LinkInv, TypeOK, CountersOK, FlagsOK, Behind, Waited, InStep,
                Counted, Sending, LinkDrains, sendvars, knowvars, endvars,
                outvars, histvars
  <1>4. QED
    BY <1>1, <1>3 DEF LinkInv, TypeOK

LEMMA TmuxReadsKeeps ==
  ASSUME LinkAssumption, LinkInv, TmuxReads
  PROVE  LinkInv'
  <1>1. CountersOK' /\ FlagsOK'
    <2>1. CountersOK'
      BY DEF LinkInv, TypeOK, CountersOK, LinkAssumption, TmuxReads, Queue,
             Lesser, sendvars, knowvars, endvars, outvars, histvars
    <2>2. FlagsOK'
      <3>1. good' \in BOOLEAN /\ cut' \in BOOLEAN /\ lost' \in BOOLEAN
        BY Zenon DEF LinkInv, TypeOK, FlagsOK, TmuxReads, Queue, Lesser,
                     sendvars, knowvars, endvars, outvars, histvars
      <3>2. QED
        BY <3>1 DEF LinkInv, TypeOK, FlagsOK, TmuxReads, Queue, Lesser,
                    sendvars, knowvars, endvars, outvars, histvars
    <2>3. QED
      BY <2>1, <2>2
  <1>2. Bound' = Bound
    BY BoundSame DEF TmuxReads, knowvars, endvars
  <1>3. Behind' /\ Waited' /\ InStep' /\ Counted'
    BY <1>2 DEF LinkInv, TypeOK, CountersOK, FlagsOK, Behind, Waited, InStep,
                Counted, Sending, TmuxReads, Queue, Lesser, sendvars, knowvars,
                endvars, outvars, histvars
  <1>4. QED
    BY <1>1, <1>3 DEF LinkInv, TypeOK

LEMMA OtherOutputKeeps ==
  ASSUME LinkAssumption, LinkInv, OtherOutput
  PROVE  LinkInv'
  <1>1. CountersOK' /\ FlagsOK'
    <2>1. CountersOK'
      BY DEF LinkInv, TypeOK, CountersOK, LinkAssumption, OtherOutput, Event,
             Queue, Lesser, sendvars, knowvars, endvars, outvars, histvars
    <2>2. FlagsOK'
      <3>1. good' \in BOOLEAN /\ cut' \in BOOLEAN /\ lost' \in BOOLEAN /\ mixed' \in BOOLEAN
        BY Zenon DEF LinkInv, TypeOK, FlagsOK, OtherOutput, Event, Queue,
                     Lesser, sendvars, knowvars, endvars, outvars, histvars
      <3>2. QED
        BY <3>1 DEF LinkInv, TypeOK, FlagsOK, OtherOutput, Event, Queue,
                    Lesser, sendvars, knowvars, endvars, outvars, histvars
    <2>3. QED
      BY <2>1, <2>2
  <1>2. Bound' = Bound
    BY BoundSame DEF OtherOutput, knowvars, endvars
  <1>3. Behind' /\ Waited' /\ InStep' /\ Counted'
    BY <1>2 DEF LinkInv, TypeOK, CountersOK, FlagsOK, Behind, Waited, InStep,
                Counted, Sending, OtherOutput, Event, Queue, Lesser, sendvars,
                knowvars, endvars, outvars, histvars
  <1>4. QED
    BY <1>1, <1>3 DEF LinkInv, TypeOK

LEMMA StutterKeeps ==
  ASSUME LinkInv, UNCHANGED vars
  PROVE  LinkInv'
  <1>1. Bound' = Bound
    BY BoundSame DEF vars, knowvars, endvars
  <1>2. TypeOK'
    BY DEF LinkInv, TypeOK, CountersOK, FlagsOK, vars, sendvars, knowvars,
           endvars, tmuxvars, outvars, histvars
  <1>3. Behind' /\ Waited' /\ InStep' /\ Counted'
    BY <1>1 DEF LinkInv, Behind, Waited, InStep, Counted, vars, sendvars,
                endvars, tmuxvars, histvars
  <1>4. QED
    BY <1>2, <1>3 DEF LinkInv

LEMMA LinkStep ==
  ASSUME LinkAssumption, LinkInv, [Next]_vars
  PROVE  LinkInv'
  <1>1. CASE NewPicture \/ CheckResize
    BY <1>1, NewPictureKeeps, CheckResizeKeeps
  <1>2. CASE Ask
    BY <1>2, AskFailsKeeps, AskHiddenKeeps, AskShownKeeps DEF Ask
  <1>3. CASE Send
    BY <1>3, SendPartKeeps, WaitForRoomKeeps, PartsDoneKeeps, PaceDoneKeeps,
       PaceGivesUpKeeps
       DEF Send
  <1>4. CASE Check
    BY <1>4, AbandonedKeeps, LookKeeps, LookPassedKeeps, LookAgainKeeps,
       LookUnsureKeeps, LookLostKeeps
       DEF Check
  <1>5. CASE GiveUp \/ TryAgain
    BY <1>5, GiveUpKeeps, TryAgainKeeps
  <1>6. CASE TmuxReads \/ LinkDrains \/ OtherOutput
    BY <1>6, TmuxReadsKeeps, LinkDrainsKeeps, OtherOutputKeeps
  <1>7. CASE Redraw \/ Outside \/ Quit
    BY <1>7, RedrawKeeps, OutsideKeeps, QuitKeeps
  <1>8. CASE UNCHANGED vars
    BY <1>8, StutterKeeps
  <1>9. QED
    BY <1>1, <1>2, <1>3, <1>4, <1>5, <1>6, <1>7, <1>8 DEF Next, Panesend

LEMMA LinkInit ==
  ASSUME LinkAssumption, Init
  PROVE  LinkInv
  <1>1. CountersOK
    BY DEF LinkAssumption, Init, CountersOK
  <1>2. FlagsOK
    BY DEF Init, FlagsOK
  <1>3. Behind /\ Waited /\ InStep /\ Counted
    BY DEF Init, Behind, Waited, InStep, Counted, Sending
  <1>4. QED
    BY <1>1, <1>2, <1>3 DEF LinkInv, TypeOK

LEMMA LinkAlways == Spec => []LinkInv
  <1>1. Init => LinkInv
    BY LinkAssumption, LinkInit
  <1>2. LinkInv /\ [Next]_vars => LinkInv'
    BY LinkAssumption, LinkStep
  <1>3. QED
    BY <1>1, <1>2, PTL DEF Spec

(* The variables of the link keep their types.                             *)
THEOREM LinkTypeCorrect == Spec => []TypeOK
  <1>1. LinkInv => TypeOK
    BY DEF LinkInv
  <1>2. QED
    BY <1>1, LinkAlways, PTL

(* While a picture goes out, an older tmux never holds more than one step  *)
(* of it, whatever the sizes of picture, step and limit: HandedOneStep.    *)
THEOREM OneStepHanded == Spec => []HandedOneStep
  <1>1. LinkInv => HandedOneStep
    <2>1. SUFFICES ASSUME LinkInv, pc \in {"part", "pacepart"}, ~keeps, ~gaveup, ~mixed
                   PROVE  unread + held <= Bound
      BY DEF HandedOneStep, Bound
    <2>2. unread + held <= since
      BY <2>1 DEF LinkInv, Counted
    <2>3. since <= Bound
      BY <2>1 DEF LinkInv, InStep, Sending
    <2>4. unread \in Nat /\ held \in Nat /\ since \in Nat /\ Bound \in Nat
      BY <2>1, LinkAssumption, StepIsNat
         DEF LinkInv, TypeOK, CountersOK, LinkAssumption
    <2>5. QED
      BY <2>2, <2>3, <2>4
  <1>2. QED
    BY <1>1, LinkAlways, PTL

(* A step in which an older tmux drops text follows a wait that gave up,   *)
(* or has other panes' text in it.                                         *)
LEMMA DropStep ==
  ASSUME LinkAssumption, LinkInv, Next, lost', ~lost
  PROVE  gaveup \/ mixed'
  <1>1. CASE TmuxReads
    <2>1. SUFFICES ASSUME ~gaveup, ~mixed
                   PROVE  FALSE
      BY <1>1 DEF TmuxReads, histvars
    <2>2. unread > 0 /\ ~keeps /\ held + 1 >= Cap
      <3>1. Queue(TRUE) /\ unread > 0
        BY <1>1 DEF TmuxReads
      <3>2. ~keeps /\ ~(held + 1 < Cap)
        BY <3>1 DEF Queue
      <3>3. QED
        BY <3>1, <3>2 DEF LinkInv, TypeOK, CountersOK, LinkAssumption
    <2>3. pc # "pace" /\ unread + held <= since
      BY <2>1, <2>2 DEF LinkInv, Counted
    <2>4. since <= Bound
      <3>1. pc \in Sending
        BY <2>2, <2>3 DEF LinkInv, Waited, TypeOK, CountersOK
      <3>2. QED
        BY <2>2, <3>1 DEF LinkInv, InStep
    <2>5. Bound < Cap /\ Bound \in Nat
      BY <2>2, BoundBelowCap, StepIsNat DEF LinkInv
    <2>6. unread \in Nat /\ held \in Nat /\ since \in Nat /\ Cap \in Nat
      BY DEF LinkInv, TypeOK, CountersOK, LinkAssumption
    <2>7. QED
      BY <2>2, <2>3, <2>4, <2>5, <2>6
  <1>2. CASE OtherOutput
    BY <1>2 DEF OtherOutput
  <1>3. CASE NewPicture \/ CheckResize \/ Ask
    BY <1>3 DEF NewPicture, CheckResize, Ask, AskFails, AskHidden, AskShown,
                tmuxvars
  <1>4. CASE Send
    BY <1>4 DEF Send, SendPart, WaitForRoom, PartsDone, PaceDone, PaceGivesUp,
                tmuxvars
  <1>5. CASE Check
    BY <1>5 DEF Check, Abandoned, Look, LookPassed, LookAgain, LookUnsure,
                LookLost, tmuxvars
  <1>6. CASE GiveUp \/ TryAgain
    BY <1>6 DEF GiveUp, TryAgain
  <1>7. CASE LinkDrains \/ Redraw \/ Outside \/ Quit
    BY <1>7 DEF LinkDrains, Redraw, Outside, Quit, tmuxvars
  <1>8. QED
    BY <1>1, <1>2, <1>3, <1>4, <1>5, <1>6, <1>7 DEF Next, Panesend

(* However a run of sends, losses and retries goes: DropsExplained.        *)
THEOREM DropsAreExplained == Spec => DropsExplained
  <1>1. LinkInv /\ [Next]_vars => [lost' /\ ~lost => gaveup \/ mixed']_vars
    BY LinkAssumption, DropStep
  <1>2. QED
    BY <1>1, LinkAlways, PTL DEF Spec, DropsExplained

(* That the worker lets go of nothing silently rests on what tmux counts:  *)
(* while nothing was dropped and no other pane has written, what tmux has  *)
(* queued and not read is within what was written, and reaches it only     *)
(* when nothing was skipped.                                               *)
Active == {"pace", "part", "pacepart", "paceend", "sent", "look"}

Tracked == pc \in Active /\ ~lost /\ ~mixed
             => ~cut /\ written + unread <= off /\ (written + unread = off => good)
Arrived == Queued /\ held = 0 => screen = pic \/ redrawn
Settled ==
  pc = "idle" /\ pic > 0 /\ ~quitting /\ ~stopping /\ ~panehidden /\ ~told
    /\ ~unsure /\ ~mixed
    => Queued
PicInv  == Tracked /\ Arrived /\ Settled

LEMMA NewPictureSettles ==
  ASSUME LinkAssumption, LinkInv, PicInv, NewPicture
  PROVE  PicInv'
  <1>1. Tracked'
    BY DEF LinkInv, TypeOK, CountersOK, LinkAssumption, PicInv, Tracked,
           Active, NewPicture, knowvars, endvars, tmuxvars, outvars
  <1>2. Arrived'
    BY DEF LinkInv, TypeOK, CountersOK, LinkAssumption, PicInv, Arrived, Queued,
           NewPicture, knowvars, endvars, tmuxvars, outvars
  <1>3. Settled'
    BY DEF Settled, Queued, NewPicture
  <1>4. QED
    BY <1>1, <1>2, <1>3 DEF PicInv

LEMMA CheckResizeSettles ==
  ASSUME LinkAssumption, LinkInv, PicInv, CheckResize
  PROVE  PicInv'
  <1>1. Tracked'
    BY DEF LinkInv, TypeOK, CountersOK, LinkAssumption, PicInv, Tracked,
           Active, CheckResize, knowvars, endvars, tmuxvars, outvars
  <1>2. Arrived'
    BY DEF LinkInv, TypeOK, CountersOK, LinkAssumption, PicInv, Arrived, Queued,
           CheckResize, knowvars, endvars, tmuxvars, outvars
  <1>3. Settled'
    BY DEF Settled, Queued, CheckResize
  <1>4. QED
    BY <1>1, <1>2, <1>3 DEF PicInv

LEMMA AskFailsSettles ==
  ASSUME LinkAssumption, LinkInv, PicInv, AskFails
  PROVE  PicInv'
  <1>1. Tracked'
    BY DEF LinkInv, TypeOK, CountersOK, LinkAssumption, PicInv, Tracked,
           Active, AskFails, sendvars, knowvars, endvars, tmuxvars, outvars
  <1>2. Arrived'
    BY DEF LinkInv, TypeOK, CountersOK, LinkAssumption, PicInv, Arrived, Queued,
           AskFails, sendvars, knowvars, endvars, tmuxvars, outvars
  <1>3. Settled'
    BY DEF LinkInv, TypeOK, CountersOK, LinkAssumption, PicInv, Tracked,
           Active, Settled, Queued, AskFails, sendvars, knowvars, endvars, tmuxvars,
           outvars
  <1>4. QED
    BY <1>1, <1>2, <1>3 DEF PicInv

LEMMA AskHiddenSettles ==
  ASSUME LinkAssumption, LinkInv, PicInv, AskHidden
  PROVE  PicInv'
  <1>1. Tracked'
    BY DEF LinkInv, TypeOK, CountersOK, LinkAssumption, PicInv, Tracked,
           Active, AskHidden, sendvars, endvars, tmuxvars, outvars, histvars
  <1>2. Arrived'
    BY DEF LinkInv, TypeOK, CountersOK, LinkAssumption, PicInv, Arrived, Queued,
           AskHidden, sendvars, endvars, tmuxvars, outvars, histvars
  <1>3. Settled'
    BY DEF LinkInv, TypeOK, CountersOK, LinkAssumption, PicInv, Tracked,
           Active, Settled, Queued, AskHidden, sendvars, endvars, tmuxvars, outvars,
           histvars
  <1>4. QED
    BY <1>1, <1>2, <1>3 DEF PicInv

LEMMA AskShownSettles ==
  ASSUME LinkAssumption, LinkInv, PicInv, AskShown
  PROVE  PicInv'
  <1>1. Tracked'
    BY DEF LinkInv, TypeOK, CountersOK, LinkAssumption, PicInv, Tracked,
           Active, AskShown, endvars
  <1>2. Arrived'
    BY DEF LinkInv, TypeOK, CountersOK, LinkAssumption, PicInv, Arrived, Queued,
           AskShown, endvars
  <1>3. Settled'
    BY DEF LinkInv, TypeOK, CountersOK, LinkAssumption, PicInv, Tracked,
           Active, Settled, Queued, AskShown, endvars
  <1>4. QED
    BY <1>1, <1>2, <1>3 DEF PicInv

LEMMA NextPartOK ==
  ASSUME LinkAssumption, LinkInv, SendPart
  PROVE  NextPart \in Nat \ {0} /\ NextPart <= Size - off
  <1>1. off \in 0 .. Size /\ off < Size /\ Size \in Nat
    BY DEF LinkInv, TypeOK, CountersOK, LinkAssumption, SendPart
  <1>2. Part \in Nat \ {0}
    BY StepIsNat DEF LinkInv
  <1>3. QED
    BY <1>1, <1>2 DEF NextPart, Lesser

LEMMA SendPartSettles ==
  ASSUME LinkAssumption, LinkInv, PicInv, SendPart
  PROVE  PicInv'
  <1>1. /\ NextPart \in Nat \ {0}
        /\ off' = off + NextPart /\ unread' = unread + NextPart
        /\ pc = "part" /\ UNCHANGED <<pc, lost, mixed, cut, written, good>>
    BY NextPartOK DEF SendPart, histvars
  <1>2. off \in Nat /\ unread \in Nat /\ written \in Nat
    BY DEF LinkInv, TypeOK, CountersOK, LinkAssumption
  <1>3. written + unread <= off <=> written' + unread' <= off'
    BY <1>1, <1>2
  <1>4. written + unread = off <=> written' + unread' = off'
    BY <1>1, <1>2
  <1>5. Tracked'
    BY <1>1, <1>3, <1>4, Zenon DEF PicInv, Tracked
  <1>6. unread' # 0
    BY <1>1, <1>2
  <1>7. Arrived' /\ Settled'
    BY <1>1, <1>6, Zenon DEF Arrived, Queued, Settled
  <1>8. QED
    BY <1>5, <1>7 DEF PicInv

LEMMA WaitForRoomSettles ==
  ASSUME LinkAssumption, LinkInv, PicInv, WaitForRoom
  PROVE  PicInv'
  <1>1. Tracked'
    BY DEF LinkInv, TypeOK, CountersOK, LinkAssumption, PicInv, Tracked,
           Active, WaitForRoom, sendvars, knowvars, endvars, tmuxvars, outvars,
           histvars
  <1>2. Arrived'
    BY DEF LinkInv, TypeOK, CountersOK, LinkAssumption, PicInv, Arrived, Queued,
           WaitForRoom, sendvars, knowvars, endvars, tmuxvars, outvars, histvars
  <1>3. Settled'
    BY DEF LinkInv, TypeOK, CountersOK, LinkAssumption, PicInv, Tracked,
           Active, Settled, Queued, WaitForRoom, sendvars, knowvars, endvars, tmuxvars,
           outvars, histvars
  <1>4. QED
    BY <1>1, <1>2, <1>3 DEF PicInv

LEMMA PartsDoneSettles ==
  ASSUME LinkAssumption, LinkInv, PicInv, PartsDone
  PROVE  PicInv'
  <1>1. Tracked'
    BY DEF LinkInv, TypeOK, CountersOK, LinkAssumption, PicInv, Tracked,
           Active, PartsDone, sendvars, knowvars, endvars, tmuxvars, outvars,
           histvars
  <1>2. Arrived'
    BY DEF LinkInv, TypeOK, CountersOK, LinkAssumption, PicInv, Arrived, Queued,
           PartsDone, sendvars, knowvars, endvars, tmuxvars, outvars, histvars
  <1>3. Settled'
    BY DEF LinkInv, TypeOK, CountersOK, LinkAssumption, PicInv, Tracked,
           Active, Settled, Queued, PartsDone, sendvars, knowvars, endvars, tmuxvars,
           outvars, histvars
  <1>4. QED
    BY <1>1, <1>2, <1>3 DEF PicInv

LEMMA PaceDoneSettles ==
  ASSUME LinkAssumption, LinkInv, PicInv, PaceDone
  PROVE  PicInv'
  <1>1. Tracked'
    BY DEF LinkInv, TypeOK, CountersOK, LinkAssumption, PicInv, Tracked,
           Active, PaceDone, InPace, AfterPace, endvars, tmuxvars, outvars
  <1>2. Arrived'
    BY DEF LinkInv, TypeOK, CountersOK, LinkAssumption, PicInv, Arrived, Queued,
           PaceDone, InPace, AfterPace, endvars, tmuxvars, outvars
  <1>3. Settled'
    BY DEF LinkInv, TypeOK, CountersOK, LinkAssumption, PicInv, Tracked,
           Active, Settled, Queued, PaceDone, InPace, AfterPace, endvars, tmuxvars,
           outvars
  <1>4. QED
    BY <1>1, <1>2, <1>3 DEF PicInv

LEMMA PaceGivesUpSettles ==
  ASSUME LinkAssumption, LinkInv, PicInv, PaceGivesUp
  PROVE  PicInv'
  <1>1. Tracked'
    BY DEF LinkInv, TypeOK, CountersOK, LinkAssumption, PicInv, Tracked,
           Active, PaceGivesUp, InPace, AfterPace, endvars, tmuxvars, outvars
  <1>2. Arrived'
    BY DEF LinkInv, TypeOK, CountersOK, LinkAssumption, PicInv, Arrived, Queued,
           PaceGivesUp, InPace, AfterPace, endvars, tmuxvars, outvars
  <1>3. Settled'
    BY DEF LinkInv, TypeOK, CountersOK, LinkAssumption, PicInv, Tracked,
           Active, Settled, Queued, PaceGivesUp, InPace, AfterPace, endvars, tmuxvars,
           outvars
  <1>4. QED
    BY <1>1, <1>2, <1>3 DEF PicInv

LEMMA AbandonedSettles ==
  ASSUME LinkAssumption, LinkInv, PicInv, Abandoned
  PROVE  PicInv'
  <1>1. Tracked'
    BY DEF LinkInv, TypeOK, CountersOK, LinkAssumption, PicInv, Tracked,
           Active, Abandoned, sendvars, knowvars, endvars, tmuxvars, outvars,
           histvars
  <1>2. Arrived'
    BY DEF LinkInv, TypeOK, CountersOK, LinkAssumption, PicInv, Arrived, Queued,
           Abandoned, sendvars, knowvars, endvars, tmuxvars, outvars, histvars
  <1>3. Settled'
    BY DEF LinkInv, TypeOK, CountersOK, LinkAssumption, PicInv, Tracked,
           Active, Settled, Queued, Abandoned, sendvars, knowvars, endvars, tmuxvars,
           outvars, histvars
  <1>4. QED
    BY <1>1, <1>2, <1>3 DEF PicInv

LEMMA LookSettles ==
  ASSUME LinkAssumption, LinkInv, PicInv, Look
  PROVE  PicInv'
  <1>1. Tracked'
    BY DEF LinkInv, TypeOK, CountersOK, LinkAssumption, PicInv, Tracked,
           Active, Look, sendvars, knowvars, endvars, tmuxvars, outvars,
           histvars
  <1>2. Arrived'
    BY DEF LinkInv, TypeOK, CountersOK, LinkAssumption, PicInv, Arrived, Queued, Look,
           sendvars, knowvars, endvars, tmuxvars, outvars, histvars
  <1>3. Settled'
    BY DEF LinkInv, TypeOK, CountersOK, LinkAssumption, PicInv, Tracked,
           Active, Settled, Queued, Look, sendvars, knowvars, endvars, tmuxvars,
           outvars, histvars
  <1>4. QED
    BY <1>1, <1>2, <1>3 DEF PicInv

LEMMA LookPassedSettles ==
  ASSUME LinkAssumption, LinkInv, PicInv, LookPassed
  PROVE  PicInv'
  <1>1. Tracked'
    BY DEF LinkInv, TypeOK, CountersOK, LinkAssumption, PicInv, Tracked,
           Active, LookPassed, PassedOn, sendvars, knowvars, endvars, tmuxvars,
           outvars, histvars
  <1>2. Arrived'
    BY DEF LinkInv, TypeOK, CountersOK, LinkAssumption, PicInv, Arrived, Queued,
           LookPassed, PassedOn, sendvars, knowvars, endvars, tmuxvars,
           outvars, histvars
  <1>3. Settled'
    BY DEF LinkInv, TypeOK, CountersOK, LinkAssumption, PicInv, Tracked,
           Active, Settled, Queued, LookPassed, PassedOn, sendvars, knowvars, endvars,
           tmuxvars, outvars, histvars
  <1>4. QED
    BY <1>1, <1>2, <1>3 DEF PicInv

LEMMA LookAgainSettles ==
  ASSUME LinkAssumption, LinkInv, PicInv, LookAgain
  PROVE  PicInv'
  <1>1. Tracked'
    BY DEF LinkInv, TypeOK, CountersOK, LinkAssumption, PicInv, Tracked,
           Active, LookAgain, knowvars, endvars, tmuxvars, outvars, histvars
  <1>2. Arrived'
    BY DEF LinkInv, TypeOK, CountersOK, LinkAssumption, PicInv, Arrived, Queued,
           LookAgain, knowvars, endvars, tmuxvars, outvars, histvars
  <1>3. Settled'
    BY DEF LinkInv, TypeOK, CountersOK, LinkAssumption, PicInv, Tracked,
           Active, Settled, Queued, LookAgain, knowvars, endvars, tmuxvars, outvars,
           histvars
  <1>4. QED
    BY <1>1, <1>2, <1>3 DEF PicInv

LEMMA LookUnsureSettles ==
  ASSUME LinkAssumption, LinkInv, PicInv, LookUnsure
  PROVE  PicInv'
  <1>1. Tracked'
    BY DEF LinkInv, TypeOK, CountersOK, LinkAssumption, PicInv, Tracked,
           Active, LookUnsure, sendvars, knowvars, endvars, tmuxvars, outvars
  <1>2. Arrived'
    BY DEF LinkInv, TypeOK, CountersOK, LinkAssumption, PicInv, Arrived, Queued,
           LookUnsure, sendvars, knowvars, endvars, tmuxvars, outvars
  <1>3. Settled'
    BY DEF LinkInv, TypeOK, CountersOK, LinkAssumption, PicInv, Tracked,
           Active, Settled, Queued, LookUnsure, sendvars, knowvars, endvars, tmuxvars,
           outvars
  <1>4. QED
    BY <1>1, <1>2, <1>3 DEF PicInv

LEMMA LookLostSettles ==
  ASSUME LinkAssumption, LinkInv, PicInv, LookLost
  PROVE  PicInv'
  <1>1. Tracked'
    BY DEF LinkInv, TypeOK, CountersOK, LinkAssumption, PicInv, Tracked,
           Active, LookLost, endvars, tmuxvars, outvars, histvars
  <1>2. Arrived'
    BY DEF LinkInv, TypeOK, CountersOK, LinkAssumption, PicInv, Arrived, Queued,
           LookLost, endvars, tmuxvars, outvars, histvars
  <1>3. Settled'
    BY DEF LinkInv, TypeOK, CountersOK, LinkAssumption, PicInv, Tracked,
           Active, Settled, Queued, LookLost, endvars, tmuxvars, outvars, histvars
  <1>4. QED
    BY <1>1, <1>2, <1>3 DEF PicInv

LEMMA GiveUpSettles ==
  ASSUME LinkAssumption, LinkInv, PicInv, GiveUp
  PROVE  PicInv'
  <1>1. Tracked'
    BY DEF LinkInv, TypeOK, CountersOK, LinkAssumption, PicInv, Tracked,
           Active, GiveUp, Mended, sendvars, knowvars, endvars, outvars
  <1>2. Arrived'
    BY DEF LinkInv, TypeOK, CountersOK, LinkAssumption, PicInv, Arrived, Queued,
           GiveUp, Mended, sendvars, knowvars, endvars, outvars
  <1>3. Settled'
    BY DEF LinkInv, TypeOK, CountersOK, LinkAssumption, PicInv, Tracked,
           Active, Settled, Queued, GiveUp, Mended, sendvars, knowvars, endvars, outvars
  <1>4. QED
    BY <1>1, <1>2, <1>3 DEF PicInv

LEMMA TryAgainSettles ==
  ASSUME LinkAssumption, LinkInv, PicInv, TryAgain
  PROVE  PicInv'
  <1>1. Tracked'
    BY DEF LinkInv, TypeOK, CountersOK, LinkAssumption, PicInv, Tracked,
           Active, TryAgain, Mended, knowvars, endvars, outvars, histvars
  <1>2. Arrived'
    BY DEF LinkInv, TypeOK, CountersOK, LinkAssumption, PicInv, Arrived, Queued,
           TryAgain, Mended, knowvars, endvars, outvars, histvars
  <1>3. Settled'
    BY DEF LinkInv, TypeOK, CountersOK, LinkAssumption, PicInv, Tracked,
           Active, Settled, Queued, TryAgain, Mended, knowvars, endvars, outvars,
           histvars
  <1>4. QED
    BY <1>1, <1>2, <1>3 DEF PicInv

(* What tmux skips it does not count, and what it queues it counts once.   *)
LEMMA TmuxReadsSettles ==
  ASSUME LinkAssumption, LinkInv, PicInv, TmuxReads
  PROVE  PicInv'
  <1>1. /\ unread \in Nat /\ unread > 0 /\ unread' = unread - 1
        /\ written \in 0 .. Size /\ off \in 0 .. Size /\ Size \in Nat
        /\ held \in Nat
        /\ UNCHANGED <<pc, off, pic, screen, mixed>>
    BY DEF LinkInv, TypeOK, CountersOK, LinkAssumption, TmuxReads, sendvars,
           histvars
  <1>2. Tracked'
    <2>1. SUFFICES ASSUME pc \in Active, ~lost', ~mixed
                   PROVE  /\ ~cut' /\ written' + unread' <= off
                          /\ written' + unread' = off => good'
      BY <1>1 DEF Tracked
    <2>2. CASE hidden \/ skips
      <3>1. good' = FALSE /\ UNCHANGED <<written, lost, cut>>
        BY <2>2, Zenon DEF TmuxReads
      <3>2. ~cut /\ written + unread <= off
        BY <2>1, <3>1 DEF PicInv, Tracked
      <3>3. QED
        BY <1>1, <3>1, <3>2
    <2>3. CASE ~(hidden \/ skips)
      <3>1. Queue(TRUE)
        BY <2>3 DEF TmuxReads
      <3>2. held + 1 < Cap \/ keeps
        BY <2>1, <3>1 DEF Queue
      <3>3. UNCHANGED lost /\ cut' = (cut /\ ~TRUE) /\ good' = (good /\ ~(TRUE /\ cut))
        BY <3>1, <3>2, Zenon DEF Queue
      <3>4. ~cut /\ written + unread <= off /\ (written + unread = off => good)
        BY <2>1, <3>3, Zenon DEF PicInv, Tracked
      <3>5. written' = written + 1
        BY <1>1, <3>1, <3>4 DEF Queue, Lesser
      <3>6. written' + unread' = written + unread
        BY <1>1, <3>5
      <3>7. QED
        BY <3>3, <3>4, <3>6, Zenon
    <2>4. QED
      BY <2>2, <2>3
  <1>3. Arrived'
    <2>1. good' => held' = held + 1
      BY Zenon DEF TmuxReads, Queue
    <2>2. held + 1 # 0
      BY <1>1
    <2>3. QED
      BY <2>1, <2>2, Zenon DEF Arrived, Queued
  <1>4. Settled'
    <2>1. unread # 0
      BY <1>1
    <2>2. UNCHANGED <<quitting, stopping, panehidden, told, unsure>>
      BY DEF TmuxReads, endvars, knowvars, histvars
    <2>3. QED
      BY <1>1, <2>1, <2>2, Zenon DEF PicInv, Settled, Queued
  <1>5. QED
    BY <1>2, <1>3, <1>4 DEF PicInv

LEMMA LinkDrainsSettles ==
  ASSUME LinkAssumption, LinkInv, PicInv, LinkDrains
  PROVE  PicInv'
  <1>1. Tracked'
    BY DEF LinkInv, TypeOK, CountersOK, LinkAssumption, PicInv, Tracked,
           Active, LinkDrains, sendvars, knowvars, endvars, outvars, histvars
  <1>2. Arrived'
    BY DEF LinkInv, TypeOK, CountersOK, LinkAssumption, PicInv, Arrived, Queued,
           LinkDrains, sendvars, knowvars, endvars, outvars, histvars
  <1>3. Settled'
    BY DEF LinkInv, TypeOK, CountersOK, LinkAssumption, PicInv, Tracked,
           Active, Settled, Queued, LinkDrains, sendvars, knowvars, endvars, outvars,
           histvars
  <1>4. QED
    BY <1>1, <1>2, <1>3 DEF PicInv

LEMMA OtherOutputSettles ==
  ASSUME LinkAssumption, LinkInv, PicInv, OtherOutput
  PROVE  PicInv'
  <1>1. mixed' = TRUE
    BY DEF OtherOutput
  <1>2. Tracked' /\ Settled'
    BY <1>1, Zenon DEF Tracked, Settled
  <1>3. held + 1 # 0
    BY DEF LinkInv, TypeOK, CountersOK
  <1>4. good' => held' = held + 1
    BY Zenon DEF OtherOutput, Queue
  <1>5. Arrived'
    BY <1>3, <1>4, Zenon DEF Arrived, Queued
  <1>6. QED
    BY <1>2, <1>5 DEF PicInv

LEMMA RedrawSettles ==
  ASSUME LinkAssumption, LinkInv, PicInv, Redraw
  PROVE  PicInv'
  <1>1. Tracked'
    BY DEF LinkInv, TypeOK, CountersOK, LinkAssumption, PicInv, Tracked,
           Active, Redraw, Event, sendvars, knowvars, endvars, outvars
  <1>2. Arrived'
    BY DEF LinkInv, TypeOK, CountersOK, LinkAssumption, PicInv, Arrived, Queued,
           Redraw, Event, sendvars, knowvars, endvars, outvars
  <1>3. Settled'
    BY DEF LinkInv, TypeOK, CountersOK, LinkAssumption, PicInv, Tracked,
           Active, Settled, Queued, Redraw, Event, sendvars, knowvars, endvars, outvars
  <1>4. QED
    BY <1>1, <1>2, <1>3 DEF PicInv

LEMMA OutsideSettles ==
  ASSUME LinkAssumption, LinkInv, PicInv, Outside
  PROVE  PicInv'
  <1>1. Tracked'
    BY DEF LinkInv, TypeOK, CountersOK, LinkAssumption, PicInv, Tracked,
           Active, Outside, Event, sendvars, knowvars, endvars, tmuxvars
  <1>2. Arrived'
    BY DEF LinkInv, TypeOK, CountersOK, LinkAssumption, PicInv, Arrived, Queued,
           Outside, Event, sendvars, knowvars, endvars, tmuxvars
  <1>3. Settled'
    BY DEF LinkInv, TypeOK, CountersOK, LinkAssumption, PicInv, Tracked,
           Active, Settled, Queued, Outside, Event, sendvars, knowvars, endvars,
           tmuxvars
  <1>4. QED
    BY <1>1, <1>2, <1>3 DEF PicInv

LEMMA QuitSettles ==
  ASSUME LinkAssumption, LinkInv, PicInv, Quit
  PROVE  PicInv'
  <1>1. Tracked'
    BY DEF LinkInv, TypeOK, CountersOK, LinkAssumption, PicInv, Tracked,
           Active, Quit, sendvars, knowvars, endvars, tmuxvars, outvars,
           histvars
  <1>2. Arrived'
    BY DEF LinkInv, TypeOK, CountersOK, LinkAssumption, PicInv, Arrived, Queued, Quit,
           sendvars, knowvars, endvars, tmuxvars, outvars, histvars
  <1>3. Settled'
    BY DEF Settled, Queued, Quit
  <1>4. QED
    BY <1>1, <1>2, <1>3 DEF PicInv

LEMMA PicStep ==
  ASSUME LinkAssumption, LinkInv, PicInv, [Next]_vars
  PROVE  PicInv'
  <1>1. CASE NewPicture \/ CheckResize
    BY <1>1, NewPictureSettles, CheckResizeSettles
  <1>2. CASE Ask
    BY <1>2, AskFailsSettles, AskHiddenSettles, AskShownSettles DEF Ask
  <1>3. CASE Send
    BY <1>3, SendPartSettles, WaitForRoomSettles, PartsDoneSettles,
       PaceDoneSettles, PaceGivesUpSettles
       DEF Send
  <1>4. CASE Check
    BY <1>4, AbandonedSettles, LookSettles, LookPassedSettles,
       LookAgainSettles, LookUnsureSettles, LookLostSettles
       DEF Check
  <1>5. CASE GiveUp \/ TryAgain
    BY <1>5, GiveUpSettles, TryAgainSettles
  <1>6. CASE TmuxReads \/ LinkDrains \/ OtherOutput
    BY <1>6, TmuxReadsSettles, LinkDrainsSettles, OtherOutputSettles
  <1>7. CASE Redraw \/ Outside \/ Quit
    BY <1>7, RedrawSettles, OutsideSettles, QuitSettles
  <1>8. CASE UNCHANGED vars
    BY <1>8, Zenon
       DEF PicInv, Tracked, Arrived, Settled, Queued, vars, sendvars, knowvars,
           endvars, tmuxvars, histvars
  <1>9. QED
    BY <1>1, <1>2, <1>3, <1>4, <1>5, <1>6, <1>7, <1>8 DEF Next, Panesend

(* Whatever tmux skips and drops, and whenever the pane is hidden between  *)
(* the tries, panesend ends with the picture shown or on its way, waiting  *)
(* for the pane, or reported: NothingLostSilently.                         *)
THEOREM NothingIsLostSilently == Spec => []NothingLostSilently
  <1>1. Init => PicInv
    <2>1. SUFFICES ASSUME Init
                   PROVE  Tracked /\ Arrived /\ Settled
      BY DEF PicInv
    <2>2. Tracked /\ Arrived
      BY <2>1, LinkAssumption DEF Init, Tracked, Active, Arrived, Queued, LinkAssumption
    <2>3. Settled
      BY <2>1 DEF Init, Settled
    <2>4. QED
      BY <2>2, <2>3
  <1>2. LinkInv /\ PicInv /\ [Next]_vars => PicInv'
    BY LinkAssumption, PicStep
  <1>3. LinkInv /\ PicInv => NothingLostSilently
    <2>1. SUFFICES ASSUME LinkInv, PicInv, pc = "idle", pic > 0, ~quitting, ~stopping,
                          ~panehidden, ~told, ~unsure, ~mixed, ~redrawn
                   PROVE  screen = pic \/ Arriving
      BY Zenon DEF NothingLostSilently
    <2>2. Queued
      BY <2>1 DEF PicInv, Settled, Queued
    <2>3. CASE held = 0
      BY <2>1, <2>2, <2>3 DEF PicInv, Arrived, Queued
    <2>4. CASE held > 0
      BY <2>2, <2>4 DEF Arriving, Queued
    <2>5. held \in Nat
      BY <2>1 DEF LinkInv, TypeOK, CountersOK
    <2>6. QED
      BY <2>3, <2>4, <2>5
  <1>4. QED
    BY <1>1, <1>2, <1>3, LinkAlways, PTL DEF Spec
=============================================================================
