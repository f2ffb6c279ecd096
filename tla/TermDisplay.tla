----------------------------- MODULE TermDisplay -----------------------------
(***************************************************************************)
(* The terminal display of gxT.c: GrADS draws in the main thread and hands *)
(* pictures to a worker thread through a queue; Ctrl-C comes at any time.  *)
(*                                                                         *)
(* The main thread's control is pc, the worker's is wpc.  A step of either *)
(* holds tlock throughout or not at all, so the lock is not a variable.    *)
(* A page is a number: every change of the visible picture is a new one.   *)
(***************************************************************************)
EXTENDS Integers, Sequences, FiniteSets

CONSTANTS
  Modes,         \* display modes tried: subset of {"tmux", "inline", "file"}
  Anims,         \* values of GA_TERM_ANIM tried: "off", "live", "gif"
  Syncs,         \* values of GA_TERM_SYNC tried
  FrameQ,        \* frames the queue holds (FRAMEQ)
  AnimMax,       \* frames a looping GIF keeps (animmax)
  MaxPage,       \* bound: pages drawn
  SignalInIdle,  \* Ctrl-C may come while gxdidle hands the picture over
  SignalInGap,   \* Ctrl-C may come just before or just after the prompt
  WriteMayFail,  \* a picture file may fail to be written
  PaneMoves      \* the pane may be hidden, shown and resized

ASSUME TermAssumption ==
  /\ Modes \subseteq {"tmux", "inline", "file"}
  /\ Anims \subseteq {"off", "live", "gif"}
  /\ FrameQ \in Nat \ {0} /\ AnimMax \in Nat \ {0, 1} /\ MaxPage \in Nat
  /\ {SignalInIdle, SignalInGap, WriteMayFail, PaneMoves} \cup Syncs \subseteq BOOLEAN

VARIABLES
  mode, anim, syncwrite, \* what termsetup read from the environment
  page,            \* the visible picture
  dirty, drawn,    \* it changed since it was handed over; it is not blank
  dblmode, backdrawn,
  gifpages,        \* the pages of the frames kept for the GIF; ngif of them
  intr, sig,       \* what the signal handler sets, here and in gcmn
  posted,          \* a picture was handed to the worker
  pc, todo, then,  \* main thread; jobs yet to be posted, and what follows
  ret,             \* where gxdidle returns to
  show,            \* gxdidle: the picture is worth printing inline
  queue, qframes,  \* the work in order, and the frames in it
  quitting, stopping,
  wpc, wjob,       \* worker thread and the job it took
  gif,             \* the pages of the GIF under construction
  lastpic, fresh,  \* the latest picture written; seq grew since gxdidle began
  screen,          \* the picture the user sees in the pane or inline
  hidden, panehidden, fits, \* the pane is off screen; it was when a picture
                   \* came; it has the size the picture was sent for
  redrawn,         \* history: tmux redrew the pane since a picture was sent
  struck, after,   \* history: Ctrl-C in this command; pictures written since
  excused          \* history: Ctrl-C since the page's command began

envvars  == <<mode, anim, syncwrite>>
pagevars == <<page, dirty, drawn, dblmode, backdrawn>>
postvars == <<pc, todo, then>>
panevars == <<screen, hidden, panehidden, fits, redrawn>>
workvars == <<wpc, wjob, gif, lastpic>>
histvars == <<struck, excused>>
vars == <<envvars, pagevars, gifpages, intr, sig, posted, postvars, ret, show,
          queue, qframes, quitting, stopping, workvars, fresh, panevars,
          histvars, after>>

Kinds == {"still", "frame", "gifframe", "gifend", "gifdrop"}
Pictures == {"still", "frame", "gifend"}
IsFrame(k) == k \in {"frame", "gifframe"}
IsPicture(k) == k \in Pictures

(* The jobs of s of the kinds K, in order. *)
Only(s, K) == LET keep[i \in 0 .. Len(s)] ==
                    IF i = 0 THEN << >>
                    ELSE IF s[i].kind \in K THEN Append(keep[i - 1], s[i]) ELSE keep[i - 1]
              IN  keep[Len(s)]

Job(k, p) == [kind |-> k, page |-> p,
              first |-> k = "gifframe" /\ gifpages = << >>,
              pages |-> IF k = "gifend" THEN gifpages ELSE << >>]
NoJob == [kind |-> "gifdrop", page |-> 0, first |-> FALSE, pages |-> << >>]
NoPic == [kind |-> "none", page |-> 0, pages |-> << >>, want |-> << >>]

busy == wpc \in {"taken", "write", "send", "finish"}

Init ==
  /\ mode \in Modes /\ anim \in Anims /\ syncwrite \in Syncs
  /\ page = 0 /\ dirty = TRUE /\ drawn = FALSE
  /\ dblmode = FALSE /\ backdrawn = FALSE
  /\ gifpages = << >>
  /\ intr = FALSE /\ sig = FALSE /\ posted = FALSE
  /\ pc = "top" /\ todo = << >> /\ then = "command" /\ ret = "gap" /\ show = FALSE
  /\ queue = << >> /\ qframes = 0
  /\ quitting = FALSE /\ stopping = FALSE
  /\ wpc = "idle" /\ wjob = NoJob /\ gif = << >>
  /\ lastpic = NoPic /\ fresh = FALSE
  /\ screen = NoPic /\ hidden = FALSE /\ panehidden = FALSE /\ fits = TRUE
  /\ redrawn = FALSE
  /\ struck = FALSE /\ after = 0 /\ excused = FALSE

-----------------------------------------------------------------------------
(* Commands, in the main thread.                                           *)

(* frameend: what it posts of page p, when there is something to show.     *)
FrameJobs(p, swapped) ==
  (IF anim = "gif" /\ swapped /\ Len(gifpages) < AnimMax
   THEN <<Job("gifframe", p)>> ELSE << >>)
  \o (IF anim # "off" /\ mode # "inline" THEN <<Job("frame", p)>> ELSE << >>)

(* The main thread posts jobs s and goes on at where.                      *)
PostThen(s, where) ==
  /\ todo' = s
  /\ then' = where
  /\ pc' = IF s = << >> THEN where ELSE "post"

(* The visible picture changes.                                            *)
NewPage ==
  /\ page < MaxPage
  /\ page' = page + 1
  /\ excused' = struck
  /\ UNCHANGED struck

quiet == <<envvars, intr, sig, posted, ret, show, queue, qframes, quitting,
           stopping, workvars, fresh, panevars, after>>

(* touched, by any of the drawing entries. *)
Draw ==
  /\ pc = "command"
  /\ IF dblmode
     THEN backdrawn' = TRUE /\ UNCHANGED <<page, dirty, drawn, histvars>>
     ELSE NewPage /\ dirty' = TRUE /\ drawn' = TRUE /\ UNCHANGED backdrawn
  /\ UNCHANGED <<dblmode, gifpages, postvars, quiet>>

(* The page goes blank: gxdfrm for a clear, gxddbl for double buffering.   *)
Blank(dbl) ==
  /\ pc = "command"
  /\ NewPage
  /\ PostThen(IF dirty /\ drawn /\ ~intr THEN FrameJobs(page, FALSE) ELSE << >>,
              "command")
  /\ dirty' = TRUE /\ drawn' = FALSE
  /\ dblmode' = dbl /\ backdrawn' = FALSE
  /\ UNCHANGED <<gifpages, quiet>>

Clear == Blank(FALSE)
DoubleOn == ~dblmode /\ Blank(TRUE)

(* gxdswp with nothing drawn in the background: the page goes blank.       *)
SwapBlank == dblmode /\ ~backdrawn /\ Blank(TRUE)

(* gxdswp: the background is the next frame.                               *)
SwapFrame ==
  /\ pc = "command" /\ dblmode /\ backdrawn
  /\ NewPage
  /\ LET jobs == IF intr THEN << >> ELSE FrameJobs(page + 1, TRUE)
         has(k) == \E i \in 1 .. Len(jobs) : jobs[i].kind = k
     IN  /\ PostThen(jobs, "command")
         /\ dirty' = ~has("frame")
         /\ gifpages' = IF has("gifframe") THEN Append(gifpages, page + 1) ELSE gifpages
  /\ drawn' = TRUE /\ backdrawn' = FALSE
  /\ UNCHANGED <<dblmode, quiet>>

(* gxdxsz: a page of another size, redrawn from the meta buffer.           *)
SetXsize ==
  /\ pc = "command"
  /\ NewPage
  /\ dirty' = TRUE /\ drawn' \in {drawn, TRUE}
  /\ dblmode' = FALSE /\ backdrawn' = FALSE
  /\ UNCHANGED <<gifpages, postvars, quiet>>

(* A script's pull, or q pos: the picture is shown, then the user answers. *)
(* Statements are not begun once sig is set.                               *)
Pull ==
  /\ pc = "command" /\ ~sig
  /\ pc' = "top" /\ ret' = "pull"
  /\ UNCHANGED <<envvars, pagevars, gifpages, intr, sig, posted, todo, then, show,
                 queue, qframes, quitting, stopping, workvars, fresh, panevars,
                 histvars, after>>

Goto(from, to) ==
  /\ pc = from /\ pc' = to
  /\ UNCHANGED <<envvars, pagevars, gifpages, intr, posted, todo, then, show,
                 queue, qframes, quitting, stopping, workvars, fresh, panevars>>

Answer == /\ Goto("pull", IF sig THEN "ending" ELSE "command")
          /\ UNCHANGED <<sig, ret, histvars, after>>

(* The command is over; the main loop asks for the next one.               *)
EndCommand == /\ Goto("command", "top") \/ Goto("ending", "top")
              /\ ret' = "gap"
              /\ UNCHANGED <<sig, histvars, after>>

(* gxidle has returned; from ga_at_prompt = 1 on Ctrl-C is the prompt's.   *)
Prompt == Goto("gap", "prompt") /\ UNCHANGED <<sig, ret, histvars, after>>
Enter  == Goto("prompt", "begin") /\ UNCHANGED <<sig, ret, histvars, after>>

(* gcmn.sig is cleared and gacmd called.                                   *)
Begin == /\ Goto("begin", "command")
         /\ sig' = FALSE /\ struck' = FALSE /\ after' = 0
         /\ UNCHANGED <<ret, excused>>

(* quit: gxdend.                                                           *)
Quit ==
  /\ pc = "command" /\ pc' = "quit"
  /\ quitting' = TRUE
  /\ UNCHANGED <<envvars, pagevars, gifpages, intr, sig, posted, todo, then, ret,
                 show, queue, qframes, stopping, workvars, fresh, panevars,
                 histvars, after>>

Stop ==
  /\ pc = "quit" /\ pc' = "join"
  /\ stopping' = TRUE
  /\ UNCHANGED <<envvars, pagevars, gifpages, intr, sig, posted, todo, then, ret,
                 show, queue, qframes, quitting, workvars, fresh, panevars,
                 histvars, after>>

Join == /\ wpc = "gone"
        /\ Goto("join", "ended")
        /\ UNCHANGED <<sig, ret, histvars, after>>

-----------------------------------------------------------------------------
(* post: hand the first job of todo to the worker, in order.               *)

Posted == PostThen(Tail(todo), then)

(* The look at intr before the lock is taken.                              *)
PostCheck ==
  /\ pc = "post"
  /\ IF intr /\ Head(todo).kind # "gifdrop"
     THEN Posted /\ UNCHANGED posted
     ELSE /\ pc' = "lock"
          /\ posted' = (posted \/ Head(todo).kind # "gifdrop")
          /\ UNCHANGED <<todo, then>>
  /\ UNCHANGED <<envvars, pagevars, gifpages, intr, sig, ret, show, queue, qframes,
                 quitting, stopping, workvars, fresh, panevars, histvars, after>>

(* Mutant of Superseded: everything not yet started gives way.             *)
SupersededAll(j) == IF j.kind \in {"still", "gifend"} THEN << >> ELSE queue

(* dropqueue(1): a still not yet started gives way. *)
Superseded(j) == IF j.kind \in {"still", "gifend"}
                 THEN Only(queue, Kinds \ {"still"}) ELSE queue

(* Mutant of PostLocked: the queue holds one frame too many.               *)
PostLockedOverfull ==
  /\ pc = "lock"
  /\ LET j == Head(todo)
     IN  /\ IsFrame(j.kind) => qframes <= FrameQ
         /\ queue' = Append(Superseded(j), j)
         /\ qframes' = IF IsFrame(j.kind) THEN qframes + 1 ELSE qframes
         /\ Posted
  /\ UNCHANGED <<envvars, pagevars, gifpages, intr, sig, posted, ret, show,
                 quitting, stopping, workvars, fresh, panevars, histvars, after>>

(* With the lock: a frame waits for room, unless Ctrl-C ends the wait.     *)
PostLocked ==
  /\ pc = "lock"
  /\ LET j == Head(todo)
         stop == intr /\ j.kind # "gifdrop"
     IN  /\ IsFrame(j.kind) => qframes < FrameQ \/ intr
         /\ queue' = IF stop THEN Superseded(j) ELSE Append(Superseded(j), j)
         /\ qframes' = IF IsFrame(j.kind) /\ ~stop THEN qframes + 1 ELSE qframes
         /\ IF syncwrite /\ ~stop
            THEN pc' = "sync" /\ todo' = Tail(todo) /\ UNCHANGED then
            ELSE Posted
  /\ UNCHANGED <<envvars, pagevars, gifpages, intr, sig, posted, ret, show,
                 quitting, stopping, workvars, fresh, panevars, histvars, after>>

(* waitworker is over. *)
WorkDone == queue = << >> /\ ~busy

PostSync ==
  /\ pc = "sync" /\ WorkDone
  /\ PostThen(todo, then)
  /\ UNCHANGED <<envvars, pagevars, gifpages, intr, sig, posted, ret, show, queue,
                 qframes, quitting, stopping, workvars, fresh, panevars, histvars,
                 after>>

-----------------------------------------------------------------------------
(* gxdidle: GrADS is about to wait for the user.                           *)

(* Mutant of IdleInterrupted: intr is cleared and the queue kept.          *)
IdleInterruptedKeeps ==
  /\ intr /\ Goto("top", "forget")
  /\ UNCHANGED <<sig, ret, histvars, after>>

IdleInterrupted ==
  /\ intr /\ Goto("top", "drop")
  /\ UNCHANGED <<sig, ret, histvars, after>>

(* Otherwise the GIF, or the page if it is worth sending.                  *)
IdleShow ==
  /\ pc = "top" /\ ~intr
  /\ LET worth == dirty /\ (drawn \/ mode = "file" \/ (mode = "tmux" /\ posted))
     IN  PostThen(IF Len(gifpages) >= 2 THEN <<Job("gifend", page)>>
                  ELSE (IF gifpages # << >> THEN <<Job("gifdrop", page)>> ELSE << >>)
                       \o (IF worth THEN <<Job("still", page)>> ELSE << >>),
                  "show")
  /\ show' = (drawn \/ Len(gifpages) >= 2)
  /\ dirty' = FALSE /\ gifpages' = << >> /\ fresh' = FALSE
  /\ UNCHANGED <<envvars, page, drawn, dblmode, backdrawn, intr, sig, posted, ret,
                 queue, qframes, quitting, stopping, workvars, panevars, histvars,
                 after>>

(* Mutants of IdleDrop: the frames dropped are still counted; only stills  *)
(* are dropped.                                                            *)
IdleDropUncounted ==
  /\ pc = "drop" /\ pc' = "forget"
  /\ queue' = << >> /\ UNCHANGED qframes
  /\ UNCHANGED <<envvars, pagevars, gifpages, intr, sig, posted, todo, then, ret,
                 show, quitting, stopping, workvars, fresh, panevars, histvars,
                 after>>

IdleDropStills ==
  /\ pc = "drop" /\ pc' = "forget"
  /\ queue' = Only(queue, Kinds \ {"still"}) /\ UNCHANGED qframes
  /\ UNCHANGED <<envvars, pagevars, gifpages, intr, sig, posted, todo, then, ret,
                 show, quitting, stopping, workvars, fresh, panevars, histvars,
                 after>>

(* dropqueue(0). *)
IdleDrop ==
  /\ pc = "drop" /\ pc' = "forget"
  /\ queue' = << >> /\ qframes' = 0
  /\ UNCHANGED <<envvars, pagevars, gifpages, intr, sig, posted, todo, then, ret,
                 show, quitting, stopping, workvars, fresh, panevars, histvars,
                 after>>

IdleForget ==
  /\ pc = "forget"
  /\ intr' = FALSE
  /\ PostThen(IF gifpages # << >> THEN <<Job("gifdrop", page)>> ELSE << >>, ret)
  /\ gifpages' = << >> /\ dirty' = FALSE
  /\ UNCHANGED <<envvars, page, drawn, dblmode, backdrawn, sig, posted, ret, show,
                 queue, qframes, quitting, stopping, workvars, fresh, panevars,
                 histvars, after>>

(* Inline, the main thread waits for the picture and prints it.            *)
IdlePrint ==
  /\ pc = "show" /\ pc' = "clear"
  /\ mode = "inline" => WorkDone
  /\ screen' = IF mode = "inline" /\ fresh /\ show THEN lastpic ELSE screen
  /\ UNCHANGED <<envvars, pagevars, gifpages, intr, sig, posted, todo, then, ret,
                 show, queue, qframes, quitting, stopping, workvars, fresh, hidden,
                 panehidden, fits, redrawn, histvars, after>>

(* "A Ctrl-C while the picture went out was about that picture." *)
IdleClear ==
  /\ pc = "clear" /\ pc' = ret
  /\ intr' = FALSE
  /\ UNCHANGED <<envvars, pagevars, gifpages, sig, posted, todo, then, ret, show,
                 queue, qframes, quitting, stopping, workvars, fresh, panevars,
                 histvars, after>>

-----------------------------------------------------------------------------
(* The worker.                                                             *)

mainvars == <<envvars, pagevars, gifpages, intr, sig, posted, postvars, ret, show,
              quitting, stopping, histvars>>

(* Mutant of WTake: a frame taken still takes up room.                     *)
WTakeUncounted ==
  /\ wpc = "idle" /\ queue # << >>
  /\ wjob' = Head(queue) /\ queue' = Tail(queue)
  /\ wpc' = "taken"
  /\ UNCHANGED <<mainvars, qframes, gif, lastpic, fresh, panevars, after>>

WTake ==
  /\ wpc = "idle" /\ queue # << >>
  /\ wjob' = Head(queue) /\ queue' = Tail(queue)
  /\ qframes' = IF IsFrame(Head(queue).kind) THEN qframes - 1 ELSE qframes
  /\ wpc' = "taken"
  /\ UNCHANGED <<mainvars, gif, lastpic, fresh, panevars, after>>

(* Mutant of WLook: the first frame of a GIF does not start it over.       *)
WLookOn ==
  /\ wpc = "taken"
  /\ LET k == wjob.kind
         go == ~intr \/ k = "gifdrop"
         writes == k \in {"still", "frame"} \/ (k = "gifend" /\ gif # << >>)
     IN  /\ wpc' = IF go /\ writes THEN "write" ELSE "finish"
         /\ gif' = IF go /\ k = "gifdrop" THEN << >>
                   ELSE IF go /\ k = "gifframe" THEN Append(gif, wjob.page) ELSE gif
  /\ UNCHANGED <<mainvars, queue, qframes, wjob, lastpic, fresh, panevars, after>>

(* dojob, after a look at intr without the lock.                           *)
WLook ==
  /\ wpc = "taken"
  /\ LET k == wjob.kind
         base == IF wjob.first THEN << >> ELSE gif
     IN  IF intr /\ k # "gifdrop" THEN wpc' = "finish" /\ UNCHANGED gif
         ELSE \/ k = "gifdrop" /\ gif' = << >> /\ wpc' = "finish"
              \/ k = "gifframe" /\ gif' = Append(base, wjob.page) /\ wpc' = "finish"
              \/ k = "gifend" /\ gif = << >> /\ wpc' = "finish" /\ UNCHANGED gif
              \/ k \in {"still", "frame"} /\ wpc' = "write" /\ UNCHANGED gif
              \/ k = "gifend" /\ gif # << >> /\ wpc' = "write" /\ UNCHANGED gif
  /\ UNCHANGED <<mainvars, queue, qframes, wjob, lastpic, fresh, panevars, after>>

(* publish: the file is renamed into place and becomes the latest picture. *)
WPublish ==
  /\ wpc = "write" /\ wpc' = "send"
  /\ lastpic' = [kind |-> wjob.kind, page |-> wjob.page, want |-> wjob.pages,
                 pages |-> IF wjob.kind = "gifend" THEN gif ELSE << >>]
  /\ gif' = IF wjob.kind = "gifend" THEN << >> ELSE gif
  /\ fresh' = TRUE
  /\ after' = IF struck /\ after < 3 THEN after + 1 ELSE after
  /\ UNCHANGED <<mainvars, queue, qframes, wjob, panevars>>

WFail ==
  /\ WriteMayFail
  /\ wpc = "write" /\ wpc' = "finish"
  /\ gif' = IF wjob.kind = "gifend" THEN << >> ELSE gif
  /\ UNCHANGED <<mainvars, queue, qframes, wjob, lastpic, fresh, panevars, after>>

(* panesend: a picture for a pane that is off screen waits until it is on, *)
(* and then whatever else became of the pane does not matter.              *)
PaneSend ==
  IF mode # "tmux" \/ lastpic = NoPic \/ quitting THEN UNCHANGED panevars
  ELSE IF hidden THEN panehidden' = TRUE /\ redrawn' = FALSE /\ UNCHANGED <<screen, hidden, fits>>
  ELSE /\ screen' = lastpic
       /\ panehidden' = FALSE /\ fits' = TRUE /\ redrawn' = FALSE
       /\ UNCHANGED hidden

WSend ==
  /\ wpc = "send" /\ wpc' = "finish"
  /\ PaneSend
  /\ UNCHANGED <<mainvars, queue, qframes, wjob, gif, lastpic, fresh, after>>

WFinish ==
  /\ wpc = "finish" /\ wpc' = "idle"
  /\ wjob' = NoJob
  /\ UNCHANGED <<mainvars, queue, qframes, gif, lastpic, fresh, panevars, after>>

(* Mutant of WResize: only a new size is looked for.                       *)
WResizeOnly ==
  /\ wpc = "idle" /\ queue = << >> /\ ~stopping
  /\ ~fits /\ ~panehidden
  /\ PaneSend
  /\ UNCHANGED <<mainvars, queue, qframes, workvars, fresh, after>>

(* checkresize, when there is nothing else to do. *)
WResize ==
  /\ wpc = "idle" /\ queue = << >> /\ ~stopping
  /\ panehidden \/ ~fits
  /\ PaneSend
  /\ UNCHANGED <<mainvars, queue, qframes, workvars, fresh, after>>

WExit ==
  /\ wpc = "idle" /\ queue = << >> /\ stopping
  /\ wpc' = "gone"
  /\ gif' = << >>
  /\ UNCHANGED <<mainvars, queue, qframes, wjob, lastpic, fresh, panevars, after>>

-----------------------------------------------------------------------------
(* The environment.                                                        *)

InCommand ==
  \/ pc \in {"command", "ending", "pull", "top", "quit", "join"}
  \/ pc \in {"post", "lock", "sync"} /\ then = "command"
InGap  == pc \in {"gap", "begin"}
InIdle == ~InCommand /\ ~InGap /\ pc \notin {"prompt", "ended"}

(* gasig and gxdintr; at the prompt Ctrl-C only starts a fresh line. *)
Signal ==
  /\ InCommand \/ (SignalInIdle /\ InIdle) \/ (SignalInGap /\ InGap)
  /\ ~intr \/ ~sig
  /\ intr' = TRUE /\ sig' = TRUE
  /\ struck' = TRUE /\ excused' = TRUE
  /\ UNCHANGED <<envvars, pagevars, gifpages, posted, postvars, ret, show, queue,
                 qframes, quitting, stopping, workvars, fresh, panevars, after>>

(* A picture was sent, and none waits for the pane.                        *)
Sent == lastpic # NoPic /\ ~panehidden

(* The pane leaves the screen or comes back, or changes its size, perhaps  *)
(* to what it was.  tmux redraws it from what it knows, without a picture. *)
Pane ==
  /\ PaneMoves /\ mode = "tmux" /\ pc # "ended"
  /\ \/ hidden' = ~hidden /\ UNCHANGED fits
     \/ Sent /\ fits' = ~fits /\ UNCHANGED hidden
  /\ screen' = NoPic /\ redrawn' = Sent
  /\ UNCHANGED <<mainvars, queue, qframes, workvars, fresh, panehidden, after>>

Command == Draw \/ Clear \/ DoubleOn \/ SwapBlank \/ SwapFrame \/ SetXsize \/ Pull
           \/ EndCommand \/ Quit
User == Prompt \/ Enter \/ Begin \/ Answer
Post == PostCheck \/ PostLocked \/ PostSync
Idle == IdleInterrupted \/ IdleShow \/ IdleDrop \/ IdleForget \/ IdlePrint \/ IdleClear
Gone == Stop \/ Join
Worker == WTake \/ WLook \/ WPublish \/ WFail \/ WSend \/ WFinish \/ WResize \/ WExit

Next == Command \/ User \/ Post \/ Idle \/ Gone \/ Worker \/ Signal \/ Pane

(* Both threads keep running; the user, Ctrl-C and the pane promise nothing. *)
Fairness == WF_vars(Post \/ Idle \/ Gone \/ Prompt) /\ WF_vars(Worker)

Spec == Init /\ [][Next]_vars
FairSpec == Spec /\ Fairness

-----------------------------------------------------------------------------
(* What is handed over and not yet written: in the worker's hand, in the   *)
(* queue, in the main thread's.                                            *)
Hand == IF wpc \in {"taken", "write"} THEN <<wjob>> ELSE << >>

Pending == LET all == Only(Hand \o queue \o todo, Pictures)
           IN  [i \in 1 .. Len(all) |-> [kind |-> all[i].kind, page |-> all[i].page]]

Feed == INSTANCE PictureFeed WITH
  MayFail <- WriteMayFail, pending <- Pending,
  shown <- [kind |-> lastpic.kind, page |-> lastpic.page], stopped <- intr

(* Every picture is shown, in the order drawn; only Ctrl-C, a newer still  *)
(* or a failed write make one disappear (post, dropqueue, work, publish).  *)
RefinesPictureFeed == Feed!FSpec

Pages == 0 .. MaxPage
Jobs == [kind : Kinds, page : Pages, first : BOOLEAN, pages : Seq(Pages)]
Pics == [kind : Pictures \cup {"none"}, page : Pages, pages : Seq(Pages), want : Seq(Pages)]

PCs == {"top", "drop", "forget", "show", "clear", "gap", "prompt", "begin", "command",
        "pull", "ending", "post", "lock", "sync", "quit", "join", "ended"}
WPCs == {"idle", "taken", "write", "send", "finish", "gone"}

(* Types, and the frames the queue and a GIF of one command hold. *)
TypeOK ==
  /\ mode \in Modes /\ anim \in Anims /\ syncwrite \in Syncs
  /\ page \in Pages
  /\ {dirty, drawn, dblmode, backdrawn, intr, sig, posted, show, fresh, quitting,
      stopping, hidden, panehidden, fits, redrawn, struck, excused} \subseteq BOOLEAN
  /\ gifpages \in Seq(Pages) /\ Len(gifpages) <= AnimMax
  /\ gif \in Seq(Pages)
  /\ pc \in PCs /\ then \in PCs /\ ret \in {"gap", "pull"} /\ wpc \in WPCs
  /\ todo \in Seq(Jobs) /\ queue \in Seq(Jobs) /\ wjob \in Jobs
  /\ qframes \in 0 .. FrameQ
  /\ lastpic \in Pics /\ screen \in Pics /\ after \in 0 .. 3

(* qframes is the number of frames in the queue, so a frame waits exactly  *)
(* when the queue is full: it is kept in post, work and dropqueue.         *)
FramesCounted ==
  qframes = Cardinality({i \in 1 .. Len(queue) : IsFrame(queue[i].kind)})

(* A looping GIF holds frames of one command only, in order, whatever was  *)
(* left in the worker of the GIF of a command that was interrupted.        *)
GifIsOneCommand ==
  LET p == lastpic.pages
  IN  /\ \A i \in 1 .. Len(p) : \E j \in 1 .. Len(lastpic.want) : lastpic.want[j] = p[i]
      /\ \A i \in 1 .. Len(p) - 1 : p[i] < p[i + 1]

(* Once the prompt is back after Ctrl-C there is nothing left to send.     *)
NothingLeftAtPrompt ==
  pc = "prompt" /\ struck => \A i \in 1 .. Len(queue) : ~IsPicture(queue[i].kind)

(* After Ctrl-C at most one more picture arrives (TERMINAL.md). *)
AtMostOneMore == after <= 1

(* The code's own bound: the picture in the worker's hand, and one it took *)
(* before the queue was dropped and looked at after intr was cleared.      *)
AtMostTwoMore == after <= 2

(* The user sees the picture made of the page: itself, or the GIF its      *)
(* command left in its place.                                              *)
Seen == IF mode = "file" THEN lastpic ELSE screen
PageSeen == Seen.page = page
LastPageSeen == PageSeen /\ (Seen.kind = "gifend" => Seen.pages[Len(Seen.pages)] = page)

(* tmux has redrawn the pane without its picture, and nothing tells the    *)
(* worker: no picture waits for the pane, and it has the size it had.      *)
Unnoticed == redrawn /\ ~panehidden /\ fits

(* The prompt is back and the last command not interrupted; the page is    *)
(* one the display shows.                                                  *)
AtRest == pc = "prompt" /\ ~excused /\ ~hidden /\ (drawn \/ mode = "file")
Settled == AtRest /\ WorkDone /\ ~panehidden /\ fits /\ ~redrawn

(* While GrADS waits at the prompt the picture of an uninterrupted command *)
(* comes back to a pane that is on screen, and stays if the pane is left   *)
(* alone: one that came while the pane was hidden is sent when it is back, *)
(* and again when its pane has another size (checkresize).  The exception  *)
(* is the one TERMINAL.md states: a pane that was away while no picture    *)
(* came is blank until the next picture or a resize.                       *)
PromptShowsPage == <>[](AtRest /\ ~Unnoticed) => []<>PageSeen

(* Once the worker is done the picture at the prompt is the page.          *)
SettledShowsPage == Settled => PageSeen
SettledShowsLastPage == Settled => LastPageSeen

(* The main thread always gets back to the user: no frame waits for ever,  *)
(* and quit ends, with the queue worked off.                               *)
Working == {"top", "drop", "forget", "post", "lock", "sync", "show", "clear", "quit",
            "join"}
MainReturns == []<>(pc \notin Working)
=============================================================================
