----------------------------- MODULE MetaBuffer -----------------------------
(***************************************************************************)
(* The graphics meta buffer of gxmeta.c and the undo stack kept in it, as  *)
(* gacmd (gauser.c) and gxfrme (gxsubs.c) drive them.                      *)
(*                                                                         *)
(* A chain of buffers is a sequence of buffer names and the index of the   *)
(* buffer being added to (mbuflast); the buffers after it are spares that  *)
(* mbufget reuses.  The words of a buffer in use are text[b], so `used' is *)
(* Len(text[b]).  A page is what gxhdrw replays: the texts of the buffers  *)
(* up to mbuflast.                                                         *)
(***************************************************************************)
EXTENDS Integers, Sequences, FiniteSets

CONSTANTS
  Buf,            \* the buffers the allocator can hand out
  NoBuf,          \* a null struct gxmbuf pointer
  Prim,           \* the graphics primitives commands draw
  Words,          \* how many words each primitive takes
  Need,           \* how many free words its hout routine asks for
  BufLen,         \* words in a buffer (BWORKSZ)
  Backdrop,       \* text gxfrme draws on a new page: << >> for black or white
  AllocMayFail,   \* galloc may return NULL
  ClearAfterDraw, \* scripts may clear after they have drawn
  UndoInScript,   \* scripts may contain undo
  MaxLim,         \* bound: largest undo limit set
  MaxGen,         \* bound: largest generation handed out
  NoPage          \* see UndoHistory

(* A word is the k-th word of a primitive: the first carries its opcode.   *)
Word == {w \in Prim \X (1 .. BufLen) : w[2] <= Words[w[1]]}
PrimText(p) == [k \in 1 .. Words[p] |-> <<p, k>>]

ASSUME MetaAssumption ==
  /\ NoBuf \notin Buf
  /\ BufLen \in Nat \ {0}
  /\ Words \in [Prim -> 1 .. BufLen]
  /\ Need \in [Prim -> 1 .. BufLen]
  /\ \A p \in Prim : Words[p] <= Need[p]
  /\ Backdrop \in Seq(Word) /\ Len(Backdrop) <= BufLen
  /\ {AllocMayFail, ClearAfterDraw, UndoInScript} \subseteq BOOLEAN
  /\ MaxLim \in Nat /\ MaxGen \in Nat

ASSUME PageAssumption == NoPage \notin Seq(Seq(Word))

VARIABLES
  chain, last,          \* mbufanch, mbuflast: the chain being added to
  fore, forelast,       \* mbufanch2, mbuflast2: the foreground chain
  text,                 \* the words in use in each buffer
  heap,                 \* the buffers allocated
  mbuferror,            \* buffering suspended
  dbmode, bufmod, dbflg,\* double buffering as gxmeta, gxsubs and gacmd see it
  undolim, undostk,     \* steps to keep, steps kept, oldest first
  undogen, undoseq,     \* generation of the chain, last one handed out
  undopend,             \* position before the running command, if noted
  undoclr,              \* frame the running command set aside, if any
  running               \* inside gacmd at level one, other than for undo

chainvars == <<chain, last, fore, forelast>>
dbvars    == <<dbmode, bufmod, dbflg>>
undovars  == <<undolim, undostk, undogen, undoseq, undopend, undoclr>>
vars == <<chainvars, text, heap, mbuferror, dbvars, undovars, running>>

Mark == [buf : Buf \cup {NoBuf}, used : Nat, gen : Nat]
Step == [frame : BOOLEAN, mark : Mark, chain : Seq(Buf), gen : Nat]

Bufs(c) == {c[i] : i \in 1 .. Len(c)}
Head1(c) == IF c = << >> THEN 0 ELSE 1       \* mbuflast = mbufanch
StepBufs(stk) == UNION {Bufs(stk[i].chain) : i \in 1 .. Len(stk)}

(* Text of every buffer when the first one of chain c starts over with t.  *)
Restart(c, t) == IF c = << >> THEN text ELSE [text EXCEPT ![c[1]] = t]

(* What one galloc of a buffer can give, as a chain, when h is in use.     *)
NewChain(h) == {<<b>> : b \in Buf \ h} \cup (IF AllocMayFail THEN {<< >>} ELSE {})

Init ==
  /\ chain \in NewChain({})
  /\ last = Head1(chain)
  /\ fore = << >> /\ forelast = 0
  /\ text = [b \in Buf |-> << >>]
  /\ heap = Bufs(chain)
  /\ mbuferror = (chain = << >>)
  /\ dbmode = FALSE /\ bufmod = FALSE /\ dbflg = FALSE
  /\ undolim = 0 /\ undostk = << >>
  /\ undogen = 0 /\ undoseq = 0
  /\ undopend = << >> /\ undoclr = << >>
  /\ running = FALSE

-----------------------------------------------------------------------------
(* Undo bookkeeping.                                                       *)

EndMark == [buf  |-> IF last = 0 THEN NoBuf ELSE chain[last],
            used |-> IF last = 0 THEN 0 ELSE Len(text[chain[last]]),
            gen  |-> undogen]

(* gxhundookay: the position is of this generation and not past the end.   *)
Usable(m) ==
  /\ m.gen = undogen
  /\ \/ m.buf = NoBuf
     \/ \E i \in 1 .. last : chain[i] = m.buf /\ m.used <= Len(text[m.buf])

(* gxhundoclr, n times over: forget every step, start a new generation.    *)
ForgetSteps(n) ==
  /\ undoseq + n <= MaxGen
  /\ undoseq' = undoseq + n
  /\ undogen' = undoseq + n
  /\ undostk' = << >>
  /\ undopend' = << >>
  /\ undoclr' = << >>

(* The buffers the steps keep alive, and what is left without them.        *)
StepHeap == StepBufs(undostk) \cup StepBufs(undoclr)
LiveHeap == heap \ StepHeap

(* gxmbuferr: the chain is freed, the steps with it; buffering stops.      *)
BufferError ==
  /\ ForgetSteps(1)
  /\ chain' = << >> /\ last' = 0
  /\ heap' = LiveHeap \ Bufs(chain)

(* gxhundomark, at the start of a command other than undo.                 *)
BeginCommand ==
  /\ ~running
  /\ running' = TRUE
  /\ undoclr' = << >>
  /\ heap' = heap \ StepBufs(undoclr)
  /\ undopend' = IF undolim < 1 \/ mbuferror THEN << >> ELSE <<EndMark>>
  /\ UNCHANGED <<chainvars, text, mbuferror, dbvars, undolim, undostk,
                 undogen, undoseq>>

(* Mutant of PushStep: the step dropped keeps its frame.                   *)
PushStepLeaking(s) ==
  /\ undostk' = Append(IF Len(undostk) = undolim THEN Tail(undostk) ELSE undostk, s)
  /\ UNCHANGED heap

(* The stack with s on top; the oldest step is dropped when it is full.    *)
PushStep(s) ==
  IF Len(undostk) = undolim
  THEN /\ undostk' = Append(Tail(undostk), s)
       /\ heap' = heap \ Bufs(undostk[1].chain)
  ELSE /\ undostk' = Append(undostk, s)
       /\ UNCHANGED heap

DrewStep(m) == [frame |-> FALSE, mark |-> m, chain |-> << >>, gen |-> m.gen]

(* gxhundokeep, when the command returns.                                  *)
EndCommand ==
  /\ running
  /\ running' = FALSE
  /\ undopend' = << >>
  /\ undoclr' = << >>
  /\ IF undopend = << >> \/ undolim < 1 \/ mbuferror
     THEN heap' = heap \ StepBufs(undoclr) /\ UNCHANGED undostk
     ELSE IF undoclr # << >> THEN PushStep(undoclr[1])
     ELSE IF Usable(undopend[1]) /\ EndMark # undopend[1]
     THEN PushStep(DrewStep(undopend[1]))
     ELSE UNCHANGED <<heap, undostk>>
  /\ UNCHANGED <<chainvars, text, mbuferror, dbvars, undolim, undogen, undoseq>>

-----------------------------------------------------------------------------
(* Drawing: the hout routines and mbufget.  With mbuferror set they return *)
(* at once; with a null mbuflast they fault, so nothing is modelled then.  *)

(* Mutant of Room: one word short.                                         *)
RoomShort(p) == Len(text[chain[last]]) + Need[p] <= BufLen + 1

Room(p) == Len(text[chain[last]]) + Need[p] <= BufLen

DrawInPlace(p) ==
  /\ Room(p)
  /\ text' = [text EXCEPT ![chain[last]] = @ \o PrimText(p)]
  /\ UNCHANGED <<chainvars, heap, mbuferror, undovars>>

DrawInSpare(p) ==
  /\ ~Room(p) /\ last < Len(chain)
  /\ last' = last + 1
  /\ text' = [text EXCEPT ![chain[last + 1]] = PrimText(p)]
  /\ UNCHANGED <<chain, fore, forelast, heap, mbuferror, undovars>>

DrawInNew(p) ==
  /\ ~Room(p) /\ last = Len(chain)
  /\ \E b \in Buf \ heap :
       /\ chain' = Append(chain, b)
       /\ heap' = heap \cup {b}
       /\ text' = [text EXCEPT ![b] = PrimText(p)]
  /\ last' = last + 1
  /\ UNCHANGED <<fore, forelast, mbuferror, undovars>>

DrawNoMemory(p) ==
  /\ ~Room(p) /\ last = Len(chain) /\ AllocMayFail
  /\ BufferError
  /\ mbuferror' = TRUE
  /\ UNCHANGED <<fore, forelast, text, undolim>>

Draw(p) ==
  /\ running /\ ~mbuferror /\ last # 0
  /\ DrawInPlace(p) \/ DrawInSpare(p) \/ DrawInNew(p) \/ DrawNoMemory(p)
  /\ UNCHANGED <<dbvars, running>>

-----------------------------------------------------------------------------
(* Frames: gxhfrm.  t is the text the caller draws on the new page.        *)

(* Mutant of FrameReset: the steps are not forgotten.                      *)
FrameResetRemembers(t) ==
  /\ ~dbmode
  /\ last' = Head1(chain)
  /\ text' = Restart(chain, t)
  /\ mbuferror' = FALSE
  /\ UNCHANGED <<chain, fore, forelast, heap, dbmode, undovars>>

(* mbufrel(1) outside double buffering: the chain starts over.             *)
FrameReset(t) ==
  /\ ~dbmode
  /\ ForgetSteps(1)
  /\ last' = Head1(chain)
  /\ text' = Restart(chain, t)
  /\ heap' = LiveHeap
  /\ mbuferror' = FALSE
  /\ UNCHANGED <<chain, fore, forelast, dbmode, undolim>>

(* Double buffering ends: the background chain is freed, the foreground    *)
(* one starts over.                                                        *)
FrameSingle(t) ==
  /\ dbmode
  /\ ForgetSteps(2)
  /\ chain' = fore /\ last' = Head1(fore)
  /\ fore' = << >> /\ forelast' = 0
  /\ text' = Restart(fore, t)
  /\ heap' = LiveHeap \ Bufs(chain)
  /\ mbuferror' = FALSE
  /\ dbmode' = FALSE
  /\ UNCHANGED undolim

(* Double buffering starts, and swaps at once: the old chain starts over   *)
(* as the background, a new buffer is the foreground.                      *)
FrameDouble ==
  /\ ~dbmode
  /\ ForgetSteps(2)
  /\ \E c \in IF chain = << >> THEN NewChain(LiveHeap) ELSE {chain} :
     \E f \in NewChain(LiveHeap \cup Bufs(c)) :
       LET t == IF mbuferror THEN << >> ELSE Backdrop IN
       /\ chain' = c /\ last' = Head1(c)
       /\ fore' = f  /\ forelast' = Head1(f)
       /\ text' = [b \in Buf |-> IF b \in Bufs(f) THEN << >> ELSE Restart(c, t)[b]]
       /\ heap' = LiveHeap \cup Bufs(c) \cup Bufs(f)
  /\ dbmode' = TRUE
  /\ UNCHANGED <<mbuferror, undolim>>

(* Mutant of FrameSwap: the chain is reset before the chains are swapped.  *)
FrameSwapLate ==
  /\ dbmode
  /\ ForgetSteps(1)
  /\ chain' = fore /\ last' = forelast
  /\ fore' = chain /\ forelast' = Head1(chain)
  /\ text' = Restart(chain, << >>)
  /\ heap' = LiveHeap
  /\ UNCHANGED <<mbuferror, dbmode, undolim>>

(* The next frame of double buffering: the chains change places.           *)
FrameSwap ==
  /\ dbmode
  /\ ForgetSteps(1)
  /\ chain' = fore /\ last' = Head1(fore)
  /\ fore' = chain /\ forelast' = last
  /\ text' = Restart(fore, IF mbuferror THEN << >> ELSE Backdrop)
  /\ heap' = LiveHeap
  /\ UNCHANGED <<mbuferror, dbmode, undolim>>

(* gxhundoaside.  A clear of an empty page keeps nothing; a second clear   *)
(* in the same command only resets the new chain.                          *)
AsideNothing ==
  /\ undoclr # << >> \/ (last = 1 /\ text[chain[1]] = << >>)
  /\ last' = 1
  /\ text' = Restart(chain, Backdrop)
  /\ IF undoclr = << >> THEN UNCHANGED <<undogen, undoseq>>
     ELSE /\ undoseq < MaxGen
          /\ undoseq' = undoseq + 1 /\ undogen' = undoseq + 1
  /\ UNCHANGED <<chain, heap, undostk, undopend, undoclr>>

(* Mutant of FrameStep: the chain is not cut after mbuflast.               *)
FrameStepUncut == [frame |-> TRUE, chain |-> chain, gen |-> undogen,
                   mark |-> [buf |-> NoBuf, used |-> 0, gen |-> 0]]

FrameStep == [frame |-> TRUE, chain |-> SubSeq(chain, 1, last), gen |-> undogen,
              mark |-> [buf |-> NoBuf, used |-> 0, gen |-> 0]]

AsideFrame ==
  /\ undoclr = << >> /\ ~(last = 1 /\ text[chain[1]] = << >>)
  /\ undoseq < MaxGen
  /\ undoclr' = <<FrameStep>>
  /\ undoseq' = undoseq + 1 /\ undogen' = undoseq + 1
  /\ \E c \in IF last < Len(chain) THEN {SubSeq(chain, last + 1, Len(chain))}
              ELSE {<<b>> : b \in Buf \ heap} :
       /\ chain' = c
       /\ text' = Restart(c, Backdrop)
       /\ heap' = heap \cup Bufs(c)
  /\ last' = 1
  /\ UNCHANGED <<undostk, undopend>>

(* There is no spare and no memory for a buffer: the frame is lost too.    *)
(* gxhfrm then clears the error all the same.                              *)
AsideNoMemory ==
  /\ undoclr = << >> /\ ~(last = 1 /\ text[chain[1]] = << >>)
  /\ last = Len(chain) /\ AllocMayFail
  /\ undoseq + 2 <= MaxGen
  /\ undoseq' = undoseq + 2 /\ undogen' = undoseq + 2
  /\ chain' = << >> /\ last' = 0
  /\ heap' = LiveHeap \ Bufs(chain)
  /\ undostk' = << >> /\ undopend' = << >> /\ undoclr' = << >>
  /\ UNCHANGED text

AsideNull ==
  /\ chain = << >>
  /\ UNCHANGED <<chain, last, text, heap, undostk, undogen, undoseq, undopend,
                 undoclr>>

FrameAside ==
  /\ \/ AsideNull
     \/ chain # << >> /\ (AsideNothing \/ AsideFrame \/ AsideNoMemory)
  /\ mbuferror' = FALSE
  /\ UNCHANGED <<fore, forelast, dbmode, undolim>>

(* gxhfrm for a frame that is not double buffered and not to be undone.    *)
FrameNew(t) == FrameReset(t) \/ FrameSingle(t)
FrameNext == FrameDouble \/ FrameSwap

-----------------------------------------------------------------------------
(* The commands that act on frames.                                        *)

(* Mutant of Undoable: double buffering is only known to gacmd.            *)
UndoableBuffered == undopend # << >> /\ undolim > 0 /\ ~mbuferror /\ ~dbflg

(* gxhundoframe, and gxfrme not yet reached: may this clear be undone?     *)
Undoable == undopend # << >> /\ undolim > 0 /\ ~mbuferror /\ ~dbmode /\ ~dbflg

(* Nothing was added to the page since the command began.                  *)
Untouched == undoclr # << >> \/ undopend = <<EndMark>>

(* clear, c, clear graphics (which also leave double buffering), and clear *)
(* norset, which does not touch dbflg.                                     *)
Clear ==
  /\ running
  /\ IF Undoable
     THEN /\ ClearAfterDraw \/ Untouched
          /\ FrameAside
     ELSE FrameNew(Backdrop)
  /\ bufmod' = FALSE
  /\ dbflg' \in {FALSE, dbflg}
  /\ UNCHANGED running

(* clear hbuff calls gxhfrm without gxfrme. *)
ClearHbuff ==
  /\ running
  /\ FrameNew(<< >>)
  /\ dbflg' = FALSE
  /\ UNCHANGED <<bufmod, running>>

(* clear events flushes the event queue, and lets go of dbflg all the same. *)
ClearEvents ==
  /\ running
  /\ dbflg' = FALSE
  /\ UNCHANGED <<chainvars, text, heap, mbuferror, dbmode, bufmod, undovars,
                 running>>

(* Mutant of Reset: the display leaves double buffering, the buffer not.   *)
ResetDisplayOnly ==
  /\ running
  /\ bufmod' = FALSE
  /\ UNCHANGED <<chainvars, text, heap, mbuferror, dbmode, dbflg, undovars,
                 running>>

(* reset and reinit. *)
Reset ==
  /\ running
  /\ FrameNew(Backdrop)
  /\ bufmod' = FALSE
  /\ UNCHANGED <<dbflg, running>>

SetDbuffOn ==
  /\ running
  /\ FrameNext
  /\ bufmod' = TRUE /\ dbflg' = TRUE
  /\ UNCHANGED running

SetDbuffOff ==
  /\ running /\ dbflg
  /\ FrameNew(Backdrop)
  /\ bufmod' = FALSE /\ dbflg' = FALSE
  /\ UNCHANGED running

Swap ==
  /\ running /\ dbflg
  /\ FrameNext
  /\ bufmod' = TRUE
  /\ UNCHANGED <<dbflg, running>>

(* A frame of an animated display, which at its end lets go of dbflg only. *)
AnimFrame ==
  /\ running
  /\ FrameNext
  /\ bufmod' = TRUE
  /\ dbflg' \in {FALSE, dbflg}
  /\ UNCHANGED running

(* set undo. *)
SetUndo(n) ==
  /\ running
  /\ ForgetSteps(1)
  /\ undolim' = n
  /\ heap' = LiveHeap
  /\ UNCHANGED <<chainvars, text, mbuferror, dbvars, running>>

-----------------------------------------------------------------------------
(* gxhundo: rewind one step.                                               *)

TopStep == undostk[Len(undostk)]

(* Mutants of UndoFrame: mbuflast goes to the end of the joined chain; the *)
(* generation is not the frame's.                                          *)
UndoFrameAtEnd ==
  /\ TopStep.frame
  /\ chain' = TopStep.chain \o chain
  /\ last' = Len(chain')
  /\ undogen' = TopStep.gen
  /\ undostk' = SubSeq(undostk, 1, Len(undostk) - 1)
  /\ UNCHANGED <<text, heap, undoseq, undopend, undoclr>>

UndoFrameOtherGen ==
  /\ TopStep.frame
  /\ chain' = TopStep.chain \o chain
  /\ last' = Len(TopStep.chain)
  /\ undostk' = SubSeq(undostk, 1, Len(undostk) - 1)
  /\ UNCHANGED <<text, heap, undogen, undoseq, undopend, undoclr>>

UndoFrame ==
  /\ TopStep.frame
  /\ chain' = TopStep.chain \o chain
  /\ last' = IF TopStep.chain = << >> THEN Head1(chain) ELSE Len(TopStep.chain)
  /\ text' = IF TopStep.chain = << >> THEN Restart(chain, << >>) ELSE text
  /\ undogen' = TopStep.gen
  /\ undostk' = SubSeq(undostk, 1, Len(undostk) - 1)
  /\ UNCHANGED <<heap, undoseq, undopend, undoclr>>

UndoDraw ==
  /\ ~TopStep.frame /\ Usable(TopStep.mark)
  /\ LET m == TopStep.mark IN
     IF m.buf = NoBuf
     THEN last' = Head1(chain) /\ text' = Restart(chain, << >>)
     ELSE /\ last' = CHOOSE i \in 1 .. last : chain[i] = m.buf
          /\ text' = [text EXCEPT ![m.buf] = SubSeq(@, 1, m.used)]
  /\ undostk' = SubSeq(undostk, 1, Len(undostk) - 1)
  /\ UNCHANGED <<chain, heap, undogen, undoseq, undopend, undoclr>>

UndoStale ==
  /\ ~TopStep.frame /\ ~Usable(TopStep.mark)
  /\ ForgetSteps(1)
  /\ heap' = LiveHeap
  /\ UNCHANGED <<chain, last, text>>

(* The undo command rewinds as often as it is asked to; each rewind is one *)
(* of these.  At level one no position is noted for it.                    *)
Undo ==
  /\ running => UndoInScript
  /\ undolim > 0 /\ undostk # << >>
  /\ UndoFrame \/ UndoDraw \/ UndoStale
  /\ UNCHANGED <<fore, forelast, mbuferror, dbvars, undolim, running>>

Next ==
  \/ BeginCommand
  \/ \E p \in Prim : Draw(p)
  \/ Clear
  \/ ClearHbuff
  \/ ClearEvents
  \/ Reset
  \/ SetDbuffOn
  \/ SetDbuffOff
  \/ Swap
  \/ AnimFrame
  \/ \E n \in 0 .. MaxLim : SetUndo(n)
  \/ Undo
  \/ EndCommand

Spec == Init /\ [][Next]_vars

-----------------------------------------------------------------------------
(* The pages undo can go back to, and what it promises of them.            *)

(* The chain a mark of step i lies in once the steps above it are undone:  *)
(* that of the next frame kept, or the one the command set aside, or the   *)
(* current one.                                                            *)
HostChain(i) ==
  LET above == {j \in i + 1 .. Len(undostk) : undostk[j].frame}
  IN  IF above # {}
      THEN undostk[CHOOSE j \in above : \A k \in above : j <= k].chain
      ELSE IF undoclr # << >> THEN undoclr[1].chain
      ELSE SubSeq(chain, 1, last)

(* gxhdrw over chain c: what it replays, buffer by buffer.                 *)
Replay(c) == [i \in 1 .. Len(c) |-> text[c[i]]]

(* What it would replay of c after a rewind to mark m.                     *)
ReplayTo(c, m) ==
  IF m.buf = NoBuf THEN IF c = << >> THEN << >> ELSE << << >> >>
  ELSE IF m.buf \notin Bufs(c) THEN NoPage
  ELSE LET n == CHOOSE i \in 1 .. Len(c) : c[i] = m.buf
       IN  [i \in 1 .. n |-> IF i = n THEN SubSeq(text[m.buf], 1, m.used)
                             ELSE text[c[i]]]

Page == Replay(SubSeq(chain, 1, last))

StepPage(i) == IF undostk[i].frame THEN Replay(undostk[i].chain)
               ELSE ReplayTo(HostChain(i), undostk[i].mark)

BeforePage == IF undopend = << >> THEN NoPage
              ELSE IF undoclr # << >> THEN Replay(undoclr[1].chain)
              ELSE ReplayTo(SubSeq(chain, 1, last), undopend[1])

History == INSTANCE UndoHistory WITH
  page <- Page, past <- [i \in 1 .. Len(undostk) |-> StepPage(i)],
  before <- BeforePage, limit <- undolim

(* Undo is a history of pages: whatever commands draw, clear and reset,    *)
(* each kept step goes back to exactly the page from before its command    *)
(* (gxhundomark, gxhundokeep, gxhundo).                                    *)
RefinesUndoHistory == History!HSpec

TextOK(t) == t \in Seq(Word) /\ Len(t) <= BufLen

ChainsOK ==
  /\ chain \in Seq(Buf) /\ last \in 0 .. Len(chain)
  /\ fore \in Seq(Buf) /\ forelast \in 0 .. Len(fore)
  /\ heap \subseteq Buf

BuffersOK == text \in [Buf -> Seq(Word)] /\ \A b \in Buf : TextOK(text[b])

FlagsOK == {mbuferror, dbmode, bufmod, dbflg, running} \subseteq BOOLEAN

StacksOK ==
  /\ undolim \in 0 .. MaxLim
  /\ undostk \in Seq(Step) /\ Len(undostk) <= undolim
  /\ undoseq \in 0 .. MaxGen /\ undogen \in 0 .. undoseq
  /\ undopend \in Seq(Mark) /\ Len(undopend) <= 1
  /\ undoclr \in Seq(Step) /\ Len(undoclr) <= 1
  /\ \A i \in 1 .. Len(undostk) : undostk[i].gen <= undoseq
  /\ \A i \in 1 .. Len(undoclr) : undoclr[i].gen <= undoseq

(* Types, the extent of every buffer (the hout routines never write past   *)
(* the end of the buffer they reserved room in) and of the undo stack.     *)
TypeOK == ChainsOK /\ BuffersOK /\ FlagsOK /\ StacksOK

Distinct(c) == \A i, j \in 1 .. Len(c) : c[i] = c[j] => i = j
Apart(c, d) == Bufs(c) \cap Bufs(d) = {}

(* The frames of a list of steps share no buffer.                          *)
StepsApart(stk) ==
  /\ \A i \in 1 .. Len(stk) : Distinct(stk[i].chain)
  /\ \A i, j \in 1 .. Len(stk) : i # j => Apart(stk[i].chain, stk[j].chain)

(* A buffer is in one place of one chain, however frames are swapped, set  *)
(* aside, dropped and put back: none is drawn in, or freed, by two owners  *)
(* (gxhfrm, gxhundoaside, gxhundo, mbufchfree).                            *)
BuffersOwnedOnce ==
  /\ Distinct(chain) /\ Distinct(fore) /\ Apart(chain, fore)
  /\ StepsApart(undostk) /\ StepsApart(undoclr)
  /\ StepBufs(undostk) \cap StepBufs(undoclr) = {}
  /\ StepHeap \cap (Bufs(chain) \cup Bufs(fore)) = {}

(* Every buffer allocated is in a chain, and every chain is of allocated   *)
(* buffers: dropping a step frees its frame, and nothing that is in use.   *)
HeapAccounted == heap = Bufs(chain) \cup Bufs(fore) \cup StepHeap

(* Buffering is on only when there is a buffer to draw in: the hout        *)
(* routines test mbuferror and then follow mbuflast.                       *)
BufferReady == mbuferror \/ last # 0

(* Every step kept will be usable when undo reaches it: its position is    *)
(* within the chain and of the generation that will then be current.       *)
StepsStayUsable ==
  \A i \in 1 .. Len(undostk) : ~undostk[i].frame =>
    LET m == undostk[i].mark
        above == {j \in i + 1 .. Len(undostk) : undostk[j].frame}
    IN  /\ m.buf \in Bufs(HostChain(i)) /\ m.used <= Len(text[m.buf])
        /\ m.gen = IF above # {}
                   THEN undostk[CHOOSE j \in above : \A k \in above : j <= k].gen
                   ELSE IF undoclr # << >> THEN undoclr[1].gen ELSE undogen

(* A text gxhdrw can replay: whole primitives only.                        *)
Whole(t) ==
  \A k \in 1 .. Len(t) :
    LET p == t[k][1]  n == t[k][2]
    IN  /\ n > 1 => k > 1 /\ t[k - 1] = <<p, n - 1>>
        /\ n < Words[p] => k < Len(t) /\ t[k + 1] = <<p, n + 1>>

(* No rewind leaves part of a primitive at the end of a buffer, which the  *)
(* redraw would take for a corrupted buffer: the page, and every page undo *)
(* can go back to, is made of whole primitives.                            *)
PrimitivesWhole ==
  LET pages == {Page} \cup {StepPage(i) : i \in 1 .. Len(undostk)}
  IN  \A pg \in pages \ {NoPage} : \A i \in 1 .. Len(pg) : Whole(pg[i])

(* The displayed frame of double buffering replays as it was drawn: gxhdrw *)
(* follows its chain to the end, so the spares after it must be empty.     *)
ForegroundReplays ==
  \A i \in forelast + 1 .. Len(fore) : text[fore[i]] = << >>

(* Undo and double buffering do not mix: while frames come and go no step  *)
(* keeps one, so undo never puts an old frame in front of a background one *)
(* (the dbmode test of gxhundoframe, gxhundoclr in every frame action).    *)
NoFrameStepsInDoubleBuffering ==
  dbmode => /\ undoclr = << >>
            /\ \A i \in 1 .. Len(undostk) : ~undostk[i].frame

(* While the meta buffer keeps a background chain the display has a        *)
(* background to draw it in: gxfrme turns both on, and whatever turns the  *)
(* display's off turns the chain's off.  (The reverse fails: clear hbuff.) *)
BackgroundHasSurface == dbmode => bufmod

(* A frame action that stays in double buffering displays exactly the page *)
(* drawn in the background, untouched by the reset of the other chain.     *)
SwapShowsBackground ==
  [][dbmode /\ dbmode' /\ fore' # fore =>
       [i \in 1 .. forelast' |-> text'[fore'[i]]] = Page]_vars
=============================================================================
