------------------------------ MODULE TermLink ------------------------------
(***************************************************************************)
(* One picture on its way through tmux to the terminal: panesend, sendpic, *)
(* room, pace, passedon, mend and checkresize of gxT.c, which the worker   *)
(* of TermDisplay runs, against the tmux they are written for.             *)
(*                                                                         *)
(* A picture is Size units of text.  The worker writes units to the pane's *)
(* terminal, where they are unread until tmux takes them; tmux holds them  *)
(* for its client, whose link drains them, and counts in client_written    *)
(* what it queues and in client_discarded what it drops.  The counters are *)
(* kept as what they grew by since the worker last asked where the pane is.*)
(***************************************************************************)
EXTENDS Integers

CONSTANTS
  Size,      \* units in a picture
  Cap,       \* units held for a client at which an older tmux drops them all
  Pty,       \* units the pane's terminal takes before a write blocks
  MaxDiv,    \* losses halve the step until it is divided by this (16)
  MaxLooks,  \* looks at client_written before the last one (6 in passedon)
  MaxPic,    \* bound: pictures to show
  MaxEvents  \* bound: output of other panes, redraws, and changes to the pane

ASSUME LinkAssumption ==
  /\ Size \in Nat \ {0} /\ Cap \in Nat \ {0, 1} /\ Pty \in Nat \ {0}
  /\ MaxDiv \in Nat \ {0}
  /\ MaxLooks \in Nat /\ MaxPic \in Nat /\ MaxEvents \in Nat

VARIABLES
  pc,          \* where the worker is in panesend
  pic,         \* the latest picture, 0 for none
  tries, looks,\* of panesend and of passedon
  off, since,  \* units of it written; those since the last wait
  panehidden,  \* the picture waits for the pane
  stepdiv,     \* losses have divided the step by this: 2 ^ stepshift
  linkslow,    \* the last picture waited for the link
  quitting, stopping,
  keeps,       \* tmux does not drop (tmuxkeeps)
  unread,      \* units written to the pane that tmux has not read
  held,        \* units tmux holds for the client
  written, lost, \* client_written grew by this, up to Size; client_discarded grew
  skips,       \* a redraw waits: tmux skips passthrough text
  cut,         \* what reached the terminal ends inside a sequence
  hidden, resized, \* the pane is off screen; it has not the size sent for
  good,        \* all of the picture that tmux read was queued, none dropped
  screen,      \* the picture on the terminal
  redrawn,     \* history: tmux redrew the pane since all of the picture was queued
  events,      \* history: how much has happened to tmux beside the picture
  mixed,       \* history: another pane's text is in what tmux was given or counts
  gaveup,      \* history: tmux may hold more than was sent since the last wait
  unsure, told \* history: the worker could not tell; warnlost or warnplace is set

sendvars == <<tries, looks, off, since>>
knowvars == <<panehidden, stepdiv, linkslow>>
endvars  == <<quitting, stopping, keeps>>
tmuxvars == <<unread, held, written, lost, skips, cut, good, screen,
              redrawn>>
outvars  == <<hidden, resized>>
histvars == <<events, mixed, gaveup, unsure, told>>
vars == <<pc, pic, sendvars, knowvars, endvars, tmuxvars, outvars, histvars>>

Init ==
  /\ pc = "idle" /\ pic = 0
  /\ tries = 0 /\ looks = 0 /\ off = 0 /\ since = 0
  /\ panehidden = FALSE /\ stepdiv = 1 /\ linkslow = FALSE
  /\ quitting = FALSE /\ stopping = FALSE /\ keeps \in BOOLEAN
  /\ unread = 0 /\ held = 0 /\ written = 0 /\ lost = FALSE
  /\ skips = FALSE /\ cut = FALSE /\ good = FALSE /\ screen = 0
  /\ redrawn = FALSE
  /\ hidden \in BOOLEAN /\ resized = FALSE
  /\ events = 0 /\ mixed = FALSE /\ gaveup = FALSE /\ unsure = FALSE /\ told = FALSE

-----------------------------------------------------------------------------
(* tmux and the terminal.                                                  *)

Larger(a, b) == IF a > b THEN a ELSE b
Lesser(a, b) == IF a < b THEN a ELSE b

(* tmux queues one more unit for the client; an older one drops all it     *)
(* holds once that is too much, perhaps in the middle of a sequence.       *)
Queue(ours) ==
  /\ written' = Lesser(written + 1, Size)
  /\ IF held + 1 < Cap \/ keeps
     THEN /\ held' = held + 1
          /\ good' = (good /\ ~(ours /\ cut))
          /\ cut' = (cut /\ ~ours)
          /\ UNCHANGED lost
     ELSE /\ held' = 0
          /\ lost' = TRUE
          /\ good' = FALSE
          /\ cut' \in BOOLEAN

(* A unit of a hidden pane, or one read while a redraw waits, is skipped   *)
(* without a word.                                                         *)
TmuxReads ==
  /\ unread > 0
  /\ unread' = unread - 1
  /\ IF hidden \/ skips
     THEN good' = FALSE /\ UNCHANGED <<held, written, lost, cut>>
     ELSE Queue(TRUE)
  /\ UNCHANGED <<pc, pic, sendvars, knowvars, endvars, skips, screen, redrawn, outvars,
                 histvars>>

(* All of the picture is with the client, on its way or shown.             *)
Queued == good /\ off = Size /\ unread = 0

(* The picture is there once its last unit has gone out, unless tmux has   *)
(* redrawn the pane behind it.                                             *)
LinkDrains ==
  /\ held > 0
  /\ held' = held - 1
  /\ screen' = IF held = 1 /\ Queued /\ ~redrawn THEN pic ELSE screen
  /\ UNCHANGED <<pc, pic, sendvars, knowvars, endvars, unread, written, lost, skips,
                 cut, good, redrawn, outvars, histvars>>

Event == events < MaxEvents /\ events' = events + 1

(* Output of other panes, which the client's counters count as well.       *)
OtherOutput ==
  /\ Event
  /\ mixed' = TRUE
  /\ Queue(FALSE)
  /\ UNCHANGED <<pc, pic, sendvars, knowvars, endvars, unread, skips, screen, redrawn, outvars,
                 gaveup, unsure, told>>

(* A redraw waits while the client is behind. *)
Redraw ==
  /\ skips' = ~skips
  /\ IF skips THEN UNCHANGED events ELSE held > 0 /\ Event
  /\ UNCHANGED <<pc, pic, sendvars, knowvars, endvars, unread, held, written, lost, cut,
                 good, screen, redrawn, outvars, mixed, gaveup, unsure, told>>

(* The pane leaves the screen or comes back, or has another size.  tmux    *)
(* draws it again from what it knows, which is not the picture.            *)
Outside ==
  /\ Event
  /\ \/ hidden' = ~hidden /\ UNCHANGED resized
     \/ resized' = TRUE /\ UNCHANGED hidden
  /\ screen' = 0 /\ redrawn' = (redrawn \/ Queued)
  /\ UNCHANGED <<pc, pic, sendvars, knowvars, endvars, unread, held, written, lost,
                 skips, cut, good, mixed, gaveup, unsure, told>>

(* The main thread ends GrADS: gxdend. *)
Quit ==
  /\ ~stopping
  /\ stopping' = TRUE /\ quitting' \in BOOLEAN
  /\ UNCHANGED <<pc, pic, sendvars, knowvars, keeps, tmuxvars, outvars, histvars>>

-----------------------------------------------------------------------------
(* Sending: sendpic, room and pace.                                        *)

(* tmuxstep: a quarter of what tmux drops at, halved with each loss; no    *)
(* limit for a tmux that keeps everything.                                 *)
Step == IF keeps THEN 0 ELSE Larger((Cap \div 4) \div stepdiv, 1)

(* A part is half a step, so a slow link can take one.                     *)
Part == IF keeps THEN Pty ELSE Larger(Step \div 2, 1)

(* Mutant of Room: the part that follows is not counted.                  *)
RoomBehind(n, lim) == Step = 0 \/ since <= lim

(* May n more units go out without waiting for tmux?                       *)
Room(n, lim) == Step = 0 \/ since = 0 \/ since + n <= lim

Limits == IF linkslow THEN {Step \div 2} ELSE {Step, Step \div 2}

NextPart == Lesser(Part, Size - off)

SendPart ==
  /\ pc = "part" /\ off < Size /\ ~quitting
  /\ \E lim \in Limits : Room(NextPart, lim)
  /\ unread + NextPart <= Pty                  \* wflush waits for this
  /\ off' = off + NextPart
  /\ since' = since + NextPart
  /\ unread' = unread + NextPart
  /\ UNCHANGED <<pc, pic, tries, looks, knowvars, endvars, held, written, lost,
                 skips, cut, good, screen, redrawn, outvars, histvars>>

WaitForRoom ==
  /\ pc = "part" /\ off < Size /\ ~quitting
  /\ \E lim \in Limits : ~Room(NextPart, lim)
  /\ pc' = "pacepart"
  /\ UNCHANGED <<pic, sendvars, knowvars, endvars, tmuxvars, outvars, histvars>>

(* All of it is written; or GrADS is ending, and no more of it is.         *)
PartsDone ==
  /\ pc = "part" /\ (off = Size \/ quitting)
  /\ pc' = IF keeps THEN "sent" ELSE "paceend"
  /\ UNCHANGED <<pic, sendvars, knowvars, endvars, tmuxvars, outvars, histvars>>

AfterPace == CASE pc = "pace"     -> "part"
               [] pc = "pacepart" -> "part"
               [] pc = "paceend"  -> "sent"

InPace == pc \in {"pace", "pacepart", "paceend"}

(* Mutant of Clear: the link looks clear while tmux still holds text.      *)
ClearAtOnce == unread = 0

(* The client's terminal has room, and keeps it for a while: tmux has read *)
(* and passed on all it was given.                                         *)
Clear == unread = 0 /\ held = 0

PaceDone ==
  /\ InPace
  /\ Clear \/ stopping
  /\ pc' = AfterPace /\ since' = 0
  /\ linkslow' \in IF pc = "paceend" THEN BOOLEAN ELSE {linkslow}
  /\ gaveup' = ~Clear
  /\ UNCHANGED <<pic, tries, looks, off, panehidden, stepdiv, endvars,
                 tmuxvars, outvars, events, mixed, unsure, told>>

(* Half a minute has passed. *)
PaceGivesUp ==
  /\ InPace /\ ~Clear
  /\ pc' = AfterPace /\ since' = 0
  /\ linkslow' \in IF pc = "paceend" THEN BOOLEAN ELSE {linkslow}
  /\ gaveup' = TRUE
  /\ UNCHANGED <<pic, tries, looks, off, panehidden, stepdiv, endvars,
                 tmuxvars, outvars, events, mixed, unsure, told>>

-----------------------------------------------------------------------------
(* panesend.                                                               *)

NewPicture ==
  /\ pc = "idle" /\ pic < MaxPic /\ ~quitting
  /\ pic' = pic + 1
  /\ pc' = "ask" /\ tries' = 0
  /\ off' = 0 /\ told' = FALSE /\ unsure' = FALSE
  /\ UNCHANGED <<looks, since, knowvars, endvars, tmuxvars, outvars, events,
                 mixed, gaveup>>

(* checkresize: the pane came back, or has another size.                   *)
CheckResize ==
  /\ pc = "idle" /\ pic > 0 /\ ~quitting /\ ~stopping
  /\ panehidden \/ resized
  /\ pc' = "ask" /\ tries' = 0
  /\ off' = 0 /\ told' = FALSE /\ unsure' = FALSE
  /\ UNCHANGED <<pic, looks, since, knowvars, endvars, tmuxvars, outvars, events,
                 mixed, gaveup>>

(* tmux does not say where the pane is. *)
AskFails ==
  /\ pc = "ask"
  /\ told' = TRUE
  /\ pc' = "idle"
  /\ UNCHANGED <<pic, sendvars, knowvars, endvars,
                 tmuxvars, outvars, events, mixed, gaveup, unsure>>

AskHidden ==
  /\ pc = "ask" /\ hidden
  /\ panehidden' = TRUE
  /\ pc' = "idle"
  /\ UNCHANGED <<pic, sendvars, stepdiv, linkslow, endvars,
                 tmuxvars, outvars, histvars>>

AskShown ==
  /\ pc = "ask" /\ ~hidden
  /\ unread = 0       \* tmux answers once it has read what came before
  /\ panehidden' = FALSE /\ resized' = FALSE
  /\ off' = 0 /\ since' = 0 /\ looks' = 0
  /\ written' = 0 /\ lost' = FALSE
  /\ good' = TRUE /\ redrawn' = FALSE
  /\ mixed' = cut      \* a sequence other panes' drops cut off takes what follows
  /\ pc' = "pace"
  /\ UNCHANGED <<pic, tries, stepdiv, linkslow, endvars,
                 unread, held, skips, cut, screen, hidden, events, gaveup, unsure, told>>

Abandoned ==
  /\ pc = "sent" /\ (quitting \/ stopping)
  /\ pc' = "idle"
  /\ UNCHANGED <<pic, sendvars, knowvars, endvars, tmuxvars, outvars, histvars>>

Look ==
  /\ pc = "sent" /\ ~quitting /\ ~stopping
  /\ pc' = "look"
  /\ UNCHANGED <<pic, sendvars, knowvars, endvars, tmuxvars, outvars, histvars>>

(* Mutant of PassedOn: any growth of client_written will do.               *)
PassedOnSome == ~lost /\ written > 0

(* passedon: tmux has queued as much as the picture has, and dropped none. *)
PassedOn == ~lost /\ written >= Size

LookPassed ==
  /\ pc = "look" /\ PassedOn
  /\ pc' = "idle"
  /\ UNCHANGED <<pic, sendvars, knowvars, endvars, tmuxvars, outvars, histvars>>

LookAgain ==
  /\ pc = "look" /\ ~lost /\ ~PassedOn
  /\ looks < MaxLooks /\ ~quitting /\ ~stopping
  /\ looks' = looks + 1
  /\ UNCHANGED <<pc, pic, tries, off, since, knowvars, endvars, tmuxvars, outvars,
                 histvars>>

(* tmux does not say, or another client is attached; asked again it may    *)
(* still say what was dropped.                                             *)
LookUnsure ==
  /\ pc = "look"
  /\ pc' = "idle"
  /\ unsure' = TRUE
  /\ UNCHANGED <<pic, sendvars, knowvars, endvars, tmuxvars, outvars, events, mixed,
                 gaveup, told>>

(* Mutant of Smaller: the limit on how small the step becomes is gone.    *)
SmallerEver == IF lost /\ ~keeps THEN 2 * stepdiv ELSE stepdiv

Smaller == IF lost /\ ~keeps /\ 2 * stepdiv <= MaxDiv THEN 2 * stepdiv ELSE stepdiv

(* The picture did not go out: tmux dropped it, or had not queued all of   *)
(* it by the last look, when it has read the end of it.                    *)
LookLost ==
  /\ pc = "look"
  /\ \/ lost
     \/ ~PassedOn /\ (quitting \/ stopping \/ (looks >= MaxLooks /\ unread = 0))
  /\ stepdiv' = Smaller
  /\ pc' = IF lost \/ written > 0 THEN "mend" ELSE "again"
  /\ UNCHANGED <<pic, tries, looks, off, since, panehidden, linkslow, endvars,
                 tmuxvars, outvars, histvars>>

(* mend: end a sequence that was cut off, and have tmux redraw.            *)
Mended == cut' = (cut /\ pc = "again")

GiveUp ==
  /\ pc \in {"mend", "again"} /\ tries >= 2
  /\ Mended
  /\ told' = TRUE                              \* warnlost is 2
  /\ pc' = "idle"
  /\ UNCHANGED <<pic, sendvars, knowvars, endvars,
                 unread, held, written, lost, skips, good, screen, redrawn, outvars, events, mixed,
                 gaveup, unsure>>

(* Mutant of TryAgain: the tries are not counted.                          *)
TryAgainEver ==
  /\ pc \in {"mend", "again"}
  /\ Mended
  /\ pc' = "ask"
  /\ UNCHANGED <<pic, sendvars, knowvars, endvars, unread, held, written, lost, skips, good,
                 screen, redrawn, outvars, histvars>>

TryAgain ==
  /\ pc \in {"mend", "again"} /\ tries < 2
  /\ Mended
  /\ tries' = tries + 1
  /\ pc' = "ask"
  /\ UNCHANGED <<pic, looks, off, since, knowvars, endvars, unread, held, written,
                 lost, skips, good, screen, redrawn, outvars, histvars>>

Send == SendPart \/ WaitForRoom \/ PartsDone \/ PaceDone \/ PaceGivesUp
Ask  == AskFails \/ AskHidden \/ AskShown
Check == Abandoned \/ Look \/ LookPassed \/ LookAgain \/ LookUnsure \/ LookLost
Panesend == Ask \/ Send \/ Check \/ GiveUp \/ TryAgain

Next ==
  \/ NewPicture \/ CheckResize \/ Panesend
  \/ TmuxReads \/ LinkDrains \/ OtherOutput \/ Redraw \/ Outside \/ Quit

Spec == Init /\ [][Next]_vars

(* The worker's thread runs, and tmux reads its panes.  The link to the    *)
(* terminal need never take anything.                                      *)
FairSpec == Spec /\ WF_vars(Panesend) /\ WF_vars(TmuxReads)

-----------------------------------------------------------------------------
CountersOK ==
  /\ pc \in {"idle", "ask", "pace", "part", "pacepart", "paceend", "sent", "look",
             "mend", "again"}
  /\ pic \in 0 .. MaxPic /\ tries \in 0 .. 2 /\ looks \in 0 .. MaxLooks
  /\ off \in 0 .. Size /\ since \in 0 .. Size
  /\ stepdiv \in 1 .. MaxDiv
  /\ unread \in 0 .. Pty /\ held \in Nat /\ written \in 0 .. Size
  /\ screen \in 0 .. MaxPic /\ events \in 0 .. MaxEvents

FlagsOK ==
  /\ panehidden \in BOOLEAN /\ linkslow \in BOOLEAN /\ lost \in BOOLEAN
  /\ resized \in BOOLEAN /\ hidden \in BOOLEAN /\ skips \in BOOLEAN
  /\ quitting \in BOOLEAN /\ stopping \in BOOLEAN /\ keeps \in BOOLEAN
  /\ cut \in BOOLEAN /\ good \in BOOLEAN /\ mixed \in BOOLEAN /\ redrawn \in BOOLEAN
  /\ gaveup \in BOOLEAN /\ unsure \in BOOLEAN /\ told \in BOOLEAN

TypeOK == CountersOK /\ FlagsOK

(* While a picture goes out an older tmux is never given more than one     *)
(* step of it at a time, however the link behaves and whatever the step    *)
(* has become, so that it never holds what it would drop (room, pace,      *)
(* tmuxstep); only a wait that gave up, or other panes, can add to it.     *)
HandedOneStep ==
  pc \in {"part", "pacepart"} /\ ~keeps /\ ~gaveup /\ ~mixed
    => unread + held <= Larger(Step, Part)

(* Nothing of a picture is dropped but for those two reasons.              *)
DropsExplained == [][lost' /\ ~lost => gaveup \/ mixed']_vars

(* The picture has all been queued and is on its way out.                  *)
Arriving == good /\ off = Size /\ held > 0

(* The worker never lets go of a picture silently: when panesend is done   *)
(* with it the terminal shows it, or it waits for the pane to come back,   *)
(* or the user is told (warnlost, warnplace), though tmux skips and drops  *)
(* text and the pane is hidden between the tries.  What the code cannot    *)
(* see is excused: tmux not answering, other panes' output in the counter  *)
(* passedon reads, and a redraw of the pane once all of it was queued.     *)
NothingLostSilently ==
  pc = "idle" /\ pic > 0 /\ ~quitting /\ ~stopping
    => screen = pic \/ Arriving \/ panehidden \/ told \/ unsure \/ mixed \/ redrawn

(* panesend always comes back, however long the link takes nothing: waits  *)
(* and tries are bounded (pace, passedon, tries), so the worker serves the *)
(* next job and quit can join it.                                          *)
PanesendReturns == pc # "idle" ~> pc = "idle"
=============================================================================
